---- MODULE Spec2Model ----
(***************************************************************************)
(* Model of murmur's PipelineOrchestrator (lt-pipeline/src/orchestrator.rs)*)
(* together with the parts of AudioCapture (lt-audio/src/capture.rs) and   *)
(* of the SttProvider contract (lt-core/src/stt.rs) it drives.             *)
(*                                                                         *)
(* A session is one accepted start(): it owns one provider, one capture,   *)
(* one transcription task, one audio-forwarding task and one level task.   *)
(* Strings are sequences of one-character strings, "" is <<>>.             *)
(***************************************************************************)
EXTENDS Integers, Sequences, FiniteSets

\* ------------------------------------------------------------------ bounds
MaxSessions == 2
MaxEvents == 1
MaxChunks == 2
MaxTranscript == 2
MaxCalls == 4
MaxFrames == 3
MaxSamples == 3

Sessions == 1..MaxSessions

\* Capacity of the capture's chunk channel.
ChunkCap == 32

\* ------------------------------------------------------------------ values
Busy == {"Recording", "Transcribing", "Processing"}
Settled == {"Idle", "Done", "Error"}
PipelineState == Busy \cup Settled

Texts == {<<>>, <<"a">>}
TranscriptTexts == {<<>>, <<"a">>, <<"b">>}
LlmText == <<"x">>
LlmResults == {"ok", "err"}

TranscriptionEvent(T) ==
    [type : {"Partial", "Committed"}, text : T] \cup {[type |-> "Error", text |-> <<>>]}

VARIABLES
    state,              \* PipelineOrchestrator.state
    audio_capture,      \* PipelineOrchestrator.audio_capture: 0 = None, s = capture of session s
    level_task,         \* PipelineOrchestrator.level_task: 0 = None, s = handle of session s
    audio_task,         \* PipelineOrchestrator.audio_task
    transcription_task, \* PipelineOrchestrator.transcription_task
    start_pc,           \* position of each session's start() call
    ret,                \* outcome of the latest start() or stop() that returned
    prov,               \* provider of each session: new, started, stopping, dropped
    evq,                \* provider event channel of each session
    tr_pc,              \* position of each transcription task
    tr_exit,            \* why the transcription task left its loop
    full_transcription, \* transcription task local
    last_partial_text,  \* transcription task local
    llm_res,            \* result of llm_processor.process in the session
    au_pc,              \* position of each audio-forwarding task
    au_exit,            \* why the audio-forwarding task left its loop
    lv,                 \* level-forwarding task of each session
    cap,                \* AudioCapture of each session: none, running, stopping, closed
    chq,                \* chunk channel of each capture
    emitted,            \* events each session sent on event_tx, in emission order
    last_sc,            \* state carried by the latest StateChanged on event_tx
    rcvd,               \* provider events received by the transcription task
    enq,                \* chunks the capture placed in the chunk channel
    sent,               \* chunks passed to provider.send_audio
    stop_calls,         \* number of provider.stop_session calls
    llm_calls,          \* texts passed to llm_processor.process
    out_calls,          \* texts passed to output_sink.output_text
    ended,              \* states written by the completion logic of the session
    n_events,           \* provider events emitted so far (all sessions)
    n_chunks            \* chunks captured so far (all sessions)

orch == <<state, audio_capture, level_task, audio_task, transcription_task>>
calls == <<start_pc, ret>>
provider == <<prov, evq, n_events>>
trans == <<tr_pc, tr_exit, full_transcription, last_partial_text, llm_res>>
audio == <<au_pc, au_exit>>
capture == <<cap, chq, n_chunks>>
hist == <<rcvd, enq, sent, stop_calls, llm_calls, out_calls, ended>>

bus == <<emitted, last_sc>>

\* One SttProvider object on its own, driven through its four methods.
VARIABLES
    p_kind,             \* variant: batch (Groq, Custom), stream (ElevenLabs), native (Apple)
    p_phase,            \* new, starting, started, stopping, stopped, failed, dropped
    p_calls,            \* the methods called so far: start, send, stop
    p_ret,              \* its result: none, Ok, Err
    p_input,            \* audio_tx / ws_tx is Some; native: the session pointer is not null
    p_event_tx,         \* self.event_tx is Some
    p_handle,           \* processing_task / ws_task is Some; native: callback_ctx is Some
    p_task,             \* the session's task (native: the foreign session): none, run, final, done
    p_conn,             \* stream: the WebSocket: none, up, lost, closed
    p_should_reconnect, \* stream: should_reconnect
    p_retry_count,      \* stream: retry_count of connect_with_retry
    p_delays,           \* stream: the delays connect_with_retry has slept
    p_audio,            \* the session's audio channel: timestamps of the queued chunks
    p_clock,            \* timestamp of the latest chunk
    p_buffer,           \* chunker.buffer: number of chunks held
    p_last_flush_ms,    \* chunker.last_flush_ms
    p_acc,              \* accumulated_text
    p_uploads,          \* the results of the uploads made, in order
    p_events,           \* events sent on the session's event channel
    p_read,             \* how many of them the subscriber has received
    p_eos,              \* the subscriber has observed the end of the stream
    p_forwarded,        \* chunks handed to the session (channel, socket or foreign session)
    p_orphans,          \* running sessions a later start_session replaced
    p_teardowns,        \* task joins and foreign session destructions made by stop_session
    p_ctx               \* native: callback contexts on the heap (Box::into_raw, not yet from_raw)

pvars == <<p_kind, p_phase, p_calls, p_ret, p_input, p_event_tx, p_handle, p_task,
           p_conn, p_should_reconnect, p_retry_count, p_delays, p_audio, p_clock, p_buffer,
           p_last_flush_ms, p_acc, p_uploads, p_events, p_read, p_eos, p_forwarded,
           p_orphans, p_teardowns, p_ctx>>

\* One AudioCapture object on its own.
VARIABLES
    c_calls,            \* the methods called so far: start, stop, chunks, levels
    c_ret,              \* the result of the last one
    c_running,          \* is_running
    c_stream,           \* stream is Some
    c_handle,           \* processing_task is Some
    c_task,             \* the processing task: none, spawned, recv, done
    c_rx,               \* chunk_rx / level_rx: none, self (stored), taken (subscribed)
    c_q,                \* items in the chunk and in the level channel
    c_raw,              \* frames in the raw channel
    c_bounded,          \* the hardware delivers at most MaxFrames frames
    c_frames            \* frames delivered when c_bounded

cvars == <<c_calls, c_ret, c_running, c_stream, c_handle, c_task, c_rx, c_q, c_raw,
           c_bounded, c_frames>>

\* AudioChunker (lt-stt/src/chunker.rs): buffer and last_flush_ms are its fields; k_call is
\* the last call made on it, k_should the last result of should_flush, k_wav the bytes of
\* the last flush, k_first the timestamp of the first chunk added since the last flush()
\* call or since creation (-1: no chunk yet).
VARIABLES k_buffer, k_last_flush_ms, k_call, k_should, k_wav, k_first

kvars == <<k_buffer, k_last_flush_ms, k_call, k_should, k_wav, k_first>>

\* PipelineOrchestrator.stt_provider (0 = None, s = the provider of session s) and the
\* holder of the state mutex while a task is suspended (0 = nobody, s = a context of
\* session s).
VARIABLES stt_provider, state_lock

xvars == <<stt_provider, state_lock>>

ovars == <<orch, calls, provider, trans, audio, lv, capture, bus, hist, xvars>>

vars == <<orch, calls, provider, trans, audio, lv, capture, bus, hist, pvars, cvars, kvars, xvars>>

\* ------------------------------------------------------------------ helpers
StateChanged(st) == [type |-> "StateChanged", state |-> st, text |-> <<>>]
Event(ty, txt) == [type |-> ty, state |-> "", text |-> txt]

\* event_tx.send of the events es by a task of session s.
Emit(s, es) == [emitted EXCEPT ![s] = @ \o es]

\* The session the next accepted start() creates (0: the model's sessions are used up).
NextSession ==
    IF \E s \in Sessions : start_pc[s] = "init"
    THEN CHOOSE s \in Sessions : start_pc[s] = "init" /\ \A t \in Sessions : t < s => start_pc[t] # "init"
    ELSE 0

InitVars ==
    /\ state = "Idle"
    /\ stt_provider = 0
    /\ state_lock = 0
    /\ audio_capture = 0
    /\ level_task = 0
    /\ audio_task = 0
    /\ transcription_task = 0
    /\ ret = "none"
    /\ prov = [s \in Sessions |-> "new"]
    /\ evq = [s \in Sessions |-> <<>>]
    /\ tr_pc = [s \in Sessions |-> "none"]
    /\ tr_exit = [s \in Sessions |-> "none"]
    /\ full_transcription = [s \in Sessions |-> <<>>]
    /\ last_partial_text = [s \in Sessions |-> <<>>]
    /\ llm_res = [s \in Sessions |-> "none"]
    /\ au_pc = [s \in Sessions |-> "none"]
    /\ au_exit = [s \in Sessions |-> "none"]
    /\ lv = [s \in Sessions |-> "none"]
    /\ cap = [s \in Sessions |-> "none"]
    /\ chq = [s \in Sessions |-> <<>>]
    /\ emitted = [s \in Sessions |-> <<>>]
    /\ last_sc = "none"
    /\ rcvd = [s \in Sessions |-> <<>>]
    /\ enq = [s \in Sessions |-> <<>>]
    /\ sent = [s \in Sessions |-> <<>>]
    /\ stop_calls = [s \in Sessions |-> 0]
    /\ llm_calls = [s \in Sessions |-> <<>>]
    /\ out_calls = [s \in Sessions |-> <<>>]
    /\ ended = [s \in Sessions |-> <<>>]
    /\ n_events = 0
    /\ n_chunks = 0

\* A session nothing can act on any more: its start() has returned, its tasks have
\* ended, its capture and its provider are gone.
Quiescent(s) ==
    /\ start_pc[s] \in {"ok", "err"}
    /\ tr_pc[s] \in {"none", "done", "aborted"}
    /\ au_pc[s] \in {"none", "done", "aborted"}
    /\ lv[s] \in {"none", "done", "aborted"}
    /\ cap[s] \in {"none", "closed"}
    /\ prov[s] \in {"dropped", "failed"}
    /\ state \in Settled

\* The accepted start() that follows leaves nothing of a quiescent session behind: its
\* handles are replaced, its provider and its capture are gone.
Retire(f, blank) == [s \in Sessions |-> IF Quiescent(s) THEN blank ELSE f[s]]

\* ------------------------------------------------------------------ the state mutex

\* Mutation: start() keeps its guard on the state until it has started the provider.
LockScopesStartWide ==
    [start |-> <<"read", "write", "emit", "lock", "provider">>,
     partial |-> <<"read", "write", "emit">>,
     processing |-> <<"write">>,
     final |-> <<"write">>,
     idle |-> <<"write">>,
     stop |-> <<"read">>,
     reset |-> <<"read">>]

\* What a task does between state.lock().await and the drop of the guard, for every
\* place the mutex is taken: start() (70-93), the Partial arm (138-146), the writes of
\* Processing (209-212), of Done and Error (253-256, 286-289) and of Idle (300-303),
\* stop() (368-371) and reset() (402).
LockScopes ==
    [start |-> <<"read", "write", "emit">>,
     partial |-> <<"read", "write", "emit">>,
     processing |-> <<"write">>,
     final |-> <<"write">>,
     idle |-> <<"write">>,
     stop |-> <<"read">>,
     reset |-> <<"read">>]

\* The operations at which a task can be suspended.
Suspending == {"recv", "provider", "llm", "output", "lock"}

\* The holder of the mutex when the task next suspends: ctx if the guard is alive at a
\* suspending operation, nobody if it is dropped before.
HeldAfter(region, ctx) ==
    IF \E i \in 1..Len(LockScopes[region]) : LockScopes[region][i] \in Suspending
    THEN ctx ELSE 0

\* ------------------------------------------------------------------ start()

\* A check that accepts a start in Idle only.
StartAcceptsIdleOnly(st) == st = "Idle"

\* A check that lets a start through while the LLM step runs.
StartAcceptsProcessing(st) == st \in {"Idle", "Done", "Error", "Processing"}

\* A check that lets a start through while a transcription is under way.
StartAcceptsTranscribing(st) == st \in {"Idle", "Done", "Error", "Transcribing"}

\* The match on *state at the head of start(): the states a start is accepted in.
StartAccepts(st) == st \in {"Idle", "Done", "Error"}

\* start(), from the state lock to its release: the state check, the write of
\* Recording and the emission of StateChanged, all under the lock.
StartCall ==
    /\ UNCHANGED <<pvars, cvars, kvars, stt_provider>>
    /\ state_lock = 0
    /\ state_lock' = HeldAfter("start", IF NextSession # 0 THEN NextSession ELSE 1)
    /\ IF StartAccepts(state)
       THEN /\ NextSession # 0
            /\ state' = "Recording"
            /\ emitted' = [Retire(emitted, <<>>) EXCEPT ![NextSession] = <<StateChanged("Recording")>>]
            /\ last_sc' = "Recording"
            /\ start_pc' = [Retire(start_pc, "retired") EXCEPT ![NextSession] = "session"]
            /\ prov' = Retire(prov, "new")
            /\ tr_pc' = Retire(tr_pc, "none")
            /\ tr_exit' = Retire(tr_exit, "none")
            /\ full_transcription' = Retire(full_transcription, <<>>)
            /\ last_partial_text' = Retire(last_partial_text, <<>>)
            /\ llm_res' = Retire(llm_res, "none")
            /\ au_pc' = Retire(au_pc, "none")
            /\ au_exit' = Retire(au_exit, "none")
            /\ lv' = Retire(lv, "none")
            /\ cap' = Retire(cap, "none")
            /\ rcvd' = Retire(rcvd, <<>>)
            /\ enq' = Retire(enq, <<>>)
            /\ sent' = Retire(sent, <<>>)
            /\ stop_calls' = Retire(stop_calls, 0)
            /\ llm_calls' = Retire(llm_calls, <<>>)
            /\ out_calls' = Retire(out_calls, <<>>)
            /\ ended' = Retire(ended, <<>>)
            /\ evq' = Retire(evq, <<>>)
            /\ chq' = Retire(chq, <<>>)
            /\ UNCHANGED <<audio_capture, level_task, audio_task, transcription_task, ret,
                           n_events, n_chunks>>
       ELSE /\ ret' = "InvalidState"
            /\ UNCHANGED <<orch, start_pc, provider, trans, audio, lv, capture, bus, hist>>

\* The results of provider.start_session().
SessionResults == {"ok", "err"}

\* A start() that goes on after a failed start_session.
StartFailsNever(r) == FALSE

\* The `?` on start_session(): an Err ends start().
StartFails(r) == r = "err"

\* Mutation: the provider is left in the slot.
SlotTakeKeeps(stored) == stored

\* *stt_guard = Some(stt_provider); stt_guard.take(): the slot is None again.
SlotTake(stored) == 0

\* start(): the provider is stored in the stt_provider slot and taken out again, then
\* provider.start_session(), then subscribe_events() and the spawn of the
\* transcription task. A failing start_session returns the error; the provider, whose
\* session never started, is dropped.
StartSession(s) ==
    /\ UNCHANGED <<pvars, cvars, kvars, state_lock>>
    /\ start_pc[s] = "session"
    /\ stt_provider' = SlotTake(s)
    /\ \E r \in SessionResults :
          /\ prov' = [prov EXCEPT ![s] = IF r = "err" THEN "failed" ELSE "started"]
          /\ IF StartFails(r)
             THEN /\ start_pc' = [start_pc EXCEPT ![s] = "err"]
                  /\ ret' = "SttError"
                  /\ UNCHANGED <<tr_pc, transcription_task>>
             ELSE /\ tr_pc' = [tr_pc EXCEPT ![s] = "loop"]
                  /\ transcription_task' = s
                  /\ start_pc' = [start_pc EXCEPT ![s] = "capture"]
                  /\ UNCHANGED ret
    /\ UNCHANGED <<state, audio_capture, level_task, audio_task, evq, n_events, tr_exit,
                   full_transcription, last_partial_text, llm_res, audio, lv, capture,
                   bus, hist>>

\* start(): AudioCapture::new().start(), subscribe_levels() and the spawn of the level
\* task. A failing capture start returns the error; capture and provider are dropped.
StartCapture(s) ==
    /\ UNCHANGED <<pvars, cvars, kvars, xvars>>
    /\ start_pc[s] = "capture"
    /\ \/ /\ cap' = [cap EXCEPT ![s] = "running"]
          /\ lv' = [lv EXCEPT ![s] = "running"]
          /\ level_task' = s
          /\ start_pc' = [start_pc EXCEPT ![s] = "audio"]
          /\ UNCHANGED <<ret, prov>>
       \/ /\ prov' = [prov EXCEPT ![s] = "dropped"]
          /\ start_pc' = [start_pc EXCEPT ![s] = "err"]
          /\ ret' = "AudioError"
          /\ UNCHANGED <<cap, lv, level_task>>
    /\ UNCHANGED <<state, audio_capture, audio_task, transcription_task, evq, n_events,
                   trans, audio, chq, n_chunks, bus, hist>>

\* Drop for AudioCapture: a running capture is stopped.
CaptureDrop(c, s) == IF s # 0 /\ c[s] = "running" THEN [c EXCEPT ![s] = "stopping"] ELSE c

\* start(): subscribe_chunks() and the spawn of the audio-forwarding task, the store of
\* the capture in audio_capture (the capture it replaces is dropped), return Ok.
StartAudio(s) ==
    /\ UNCHANGED <<pvars, cvars, kvars, xvars>>
    /\ start_pc[s] = "audio"
    /\ au_pc' = [au_pc EXCEPT ![s] = "loop"]
    /\ audio_task' = s
    /\ audio_capture' = s
    /\ cap' = CaptureDrop(cap, audio_capture)
    /\ start_pc' = [start_pc EXCEPT ![s] = "ok"]
    /\ ret' = "Ok"
    /\ UNCHANGED <<state, level_task, transcription_task, provider, trans, au_exit, lv,
                   chq, n_chunks, bus, hist>>

\* ------------------------------------------------------------------ stop(), reset()

\* AudioCapture::stop(): the running flag is cleared and the stream dropped.
CaptureStop(c, s) == IF s # 0 THEN [c EXCEPT ![s] = "stopping"] ELSE c

\* A stop() that aborts every task it holds a handle of.
StopAbortsAll(lvl, aud, trn) ==
    {<<"level", lvl>>, <<"audio", aud>>, <<"trans", trn>>} \ {<<"level", 0>>, <<"audio", 0>>, <<"trans", 0>>}

\* The tasks stop() aborts, of the handles it holds: the level task only.
StopAborts(lvl, aud, trn) == {<<"level", lvl>>} \ {<<"level", 0>>}

Abort(f, kind, live) ==
    [s \in Sessions |-> IF <<kind, s>> \in StopAborts(level_task, audio_task, transcription_task)
                           /\ f[s] \in live
                        THEN "aborted" ELSE f[s]]

\* An aborted audio-forwarding task drops the provider it owns.
AbortProv(p) ==
    [s \in Sessions |-> IF <<"audio", s>> \in StopAborts(level_task, audio_task, transcription_task)
                           /\ au_pc[s] \in {"loop", "stopping"}
                        THEN "dropped" ELSE p[s]]

\* stop() returns Ok; the outcome records whether it was called while recording.
StopResult(st) == IF st \in {"Recording", "Transcribing"} THEN "Stopped" ELSE "StoppedLate"

StopBody(result) ==
    /\ UNCHANGED <<pvars, cvars, kvars, stt_provider>>
    /\ state_lock = 0
    /\ state_lock' = HeldAfter("stop", 1)
    /\ cap' = CaptureStop(cap, audio_capture)
    /\ audio_capture' = 0
    /\ lv' = Abort(lv, "level", {"running"})
    /\ au_pc' = Abort(au_pc, "audio", {"loop", "stopping"})
    /\ tr_pc' = Abort(tr_pc, "trans", {"loop", "complete", "llm", "output", "set", "emit"})
    /\ prov' = AbortProv(prov)
    /\ level_task' = 0
    /\ ret' = result
    /\ UNCHANGED <<state, audio_task, transcription_task, start_pc, evq, n_events, tr_exit,
                   full_transcription, last_partial_text, llm_res, au_exit, chq, n_chunks,
                   bus, hist>>

Stop == StopBody(StopResult(state))

\* reset(): stop() unless the state is Idle; Ok either way.
Reset ==
    IF state # "Idle"
    THEN StopBody("Reset")
    ELSE /\ state_lock = 0
         /\ state_lock' = HeldAfter("reset", 1)
         /\ ret' = "Reset"
         /\ UNCHANGED <<orch, start_pc, provider, trans, audio, lv, capture, bus, hist,
                        pvars, cvars, kvars, stt_provider>>

\* ------------------------------------------------------------------ provider

\* The provider sends an event on its event channel, between start_session and the
\* return of stop_session. A send to a receiver the transcription task has dropped fails.
ProviderEmit(s) ==
    /\ UNCHANGED <<pvars, cvars, kvars, xvars>>
    /\ prov[s] \in {"started", "stopping"}
    /\ tr_pc[s] = "loop"
    /\ n_events < MaxEvents
    /\ \E e \in TranscriptionEvent(Texts) : evq' = [evq EXCEPT ![s] = Append(@, e)]
    /\ n_events' = n_events + 1
    /\ UNCHANGED <<orch, calls, prov, trans, audio, lv, capture, bus, hist>>

\* All senders of the event channel are gone: the provider and its task are dropped.
EventStreamClosed(s) == prov[s] = "dropped"

\* ------------------------------------------------------------------ AudioCapture

\* processing_loop: chunk_tx.try_send(chunk), the chunk is dropped when the channel is full.
TrySend(q, c) == IF Len(q) < ChunkCap THEN Append(q, c) ELSE q

\* The processing task turns one raw frame into a chunk while the capture is running.
CaptureChunk(s) ==
    /\ UNCHANGED <<pvars, cvars, kvars, xvars>>
    /\ cap[s] = "running"
    /\ n_chunks < MaxChunks
    /\ chq' = [chq EXCEPT ![s] = TrySend(@, n_chunks + 1)]
    /\ enq' = [enq EXCEPT ![s] = IF Len(chq[s]) < ChunkCap THEN Append(@, n_chunks + 1) ELSE @]
    /\ n_chunks' = n_chunks + 1
    /\ UNCHANGED <<orch, calls, provider, trans, audio, lv, cap, bus, rcvd, sent, stop_calls,
                   llm_calls, out_calls, ended>>

\* The level task forwards levels until the level channel is closed, and ends with it.
LevelEnd(l) == IF l = "running" THEN "done" ELSE l

\* After stop() the processing task leaves its loop at the next test of is_running (or on
\* the closed raw channel); chunk_tx and level_tx are dropped.
CaptureExit(s) ==
    /\ UNCHANGED <<pvars, cvars, kvars, xvars>>
    /\ cap[s] = "stopping"
    /\ cap' = [cap EXCEPT ![s] = "closed"]
    /\ lv' = [lv EXCEPT ![s] = LevelEnd(@)]
    /\ UNCHANGED <<orch, calls, provider, trans, audio, chq, n_chunks, bus, hist>>

\* The frame the processing task was working on when stop() came is still sent, then the
\* task leaves its loop.
CaptureLast(s) ==
    /\ UNCHANGED <<pvars, cvars, kvars, xvars>>
    /\ cap[s] = "stopping"
    /\ n_chunks < MaxChunks
    /\ cap' = [cap EXCEPT ![s] = "closed"]
    /\ lv' = [lv EXCEPT ![s] = LevelEnd(@)]
    /\ chq' = [chq EXCEPT ![s] = TrySend(@, n_chunks + 1)]
    /\ enq' = [enq EXCEPT ![s] = IF Len(chq[s]) < ChunkCap THEN Append(@, n_chunks + 1) ELSE @]
    /\ n_chunks' = n_chunks + 1
    /\ UNCHANGED <<orch, calls, provider, trans, audio, bus, rcvd, sent, stop_calls,
                   llm_calls, out_calls, ended>>

\* ------------------------------------------------------------------ audio-forwarding task

\* A receiver that reports the end of the stream as soon as the sender is gone.
ChunkStreamEndedEarly(c, q) == c = "closed"

\* chunk_rx.recv() returns None: the channel is closed and drained.
ChunkStreamEnded(c, q) == c = "closed" /\ q = <<>>

\* One iteration of the loop: recv a chunk, send_audio; a failing send_audio breaks the
\* loop and stop_session is called.
AudioRecv(s) ==
    /\ UNCHANGED <<pvars, cvars, kvars, xvars>>
    /\ au_pc[s] = "loop"
    /\ chq[s] # <<>>
    /\ chq' = [chq EXCEPT ![s] = Tail(@)]
    /\ sent' = [sent EXCEPT ![s] = Append(@, Head(chq[s]))]
    /\ \/ UNCHANGED <<au_pc, au_exit, prov, stop_calls>>
       \/ /\ au_pc' = [au_pc EXCEPT ![s] = "stopping"]
          /\ au_exit' = [au_exit EXCEPT ![s] = "send_err"]
          /\ prov' = [prov EXCEPT ![s] = "stopping"]
          /\ stop_calls' = [stop_calls EXCEPT ![s] = @ + 1]
    /\ UNCHANGED <<orch, calls, evq, n_events, trans, lv, cap, n_chunks, bus, rcvd, enq,
                   llm_calls, out_calls, ended>>

\* recv returns None: the loop ends and stop_session is called.
AudioEnd(s) ==
    /\ UNCHANGED <<pvars, cvars, kvars, xvars>>
    /\ au_pc[s] = "loop"
    /\ ChunkStreamEnded(cap[s], chq[s])
    /\ au_pc' = [au_pc EXCEPT ![s] = "stopping"]
    /\ au_exit' = [au_exit EXCEPT ![s] = "closed"]
    /\ prov' = [prov EXCEPT ![s] = "stopping"]
    /\ stop_calls' = [stop_calls EXCEPT ![s] = @ + 1]
    /\ UNCHANGED <<orch, calls, evq, n_events, trans, lv, capture, bus, rcvd, enq, sent,
                   llm_calls, out_calls, ended>>

\* stop_session returns; the task ends and drops the provider.
AudioStopReturn(s) ==
    /\ UNCHANGED <<pvars, cvars, kvars, xvars>>
    /\ au_pc[s] = "stopping"
    /\ au_pc' = [au_pc EXCEPT ![s] = "done"]
    /\ prov' = [prov EXCEPT ![s] = "dropped"]
    /\ UNCHANGED <<orch, calls, evq, n_events, trans, au_exit, lv, capture, bus, hist>>

\* ------------------------------------------------------------------ transcription task

\* An accumulator that forgets the separator.
AccumulateNoSeparator(full, text) == full \o text

\* A completion logic that calls the LLM on an empty transcription too.
ShouldProcessAlways(full) == TRUE

\* A completion logic that never reaches the LLM branch.
ShouldProcessNever(full) == FALSE

\* A fallback output that is written in the LLM's success branch too.
ResultTextRaw(res, full, llmtext) == full

\* A failure branch that ends like the success branch.
FinalStateDone(res) == "Done"

\* Committed: push ' ' when the accumulator is not empty, then push the text.
Accumulate(full, text) == (IF full # <<>> THEN full \o <<" ">> ELSE full) \o text

\* Partial: the latest non-empty partial is kept.
TrackPartial(last, text) == IF text # <<>> THEN text ELSE last

\* After the loop: the last partial stands in when nothing was committed.
Fallback(full, last) == IF full = <<>> /\ last # <<>> THEN last ELSE full

\* The completion logic runs the LLM branch iff the transcription is not empty.
ShouldProcess(full) == full # <<>>

\* The text written to the output sink and carried by FinalResult.
ResultText(res, full, llmtext) == IF res = "ok" THEN llmtext ELSE full

\* The state the completion logic ends in after the LLM call.
FinalState(res) == IF res = "ok" THEN "Done" ELSE "Error"

\* Mutation: any Partial, an empty one too, moves Recording to Transcribing.
PartialStateAny(st, text) == IF st = "Recording" THEN "Transcribing" ELSE st

\* Partial: Recording becomes Transcribing on a non-empty text.
PartialState(st, text) == IF text # <<>> /\ st = "Recording" THEN "Transcribing" ELSE st

\* Mutation: the Error arm does not leave the loop.
AfterErrorContinue == "loop"

\* The Error arm ends with `break`: the task goes on after the loop.
AfterError == "complete"

\* One iteration of `while let Some(event) = event_rx.recv().await`.
TransRecv(s) ==
    /\ UNCHANGED <<pvars, cvars, kvars, stt_provider>>
    /\ tr_pc[s] = "loop"
    /\ evq[s] # <<>>
    /\ LET e == Head(evq[s]) IN
       /\ IF e.type = "Partial" /\ e.text # <<>>
          THEN state_lock = 0 /\ state_lock' = HeldAfter("partial", s)
          ELSE UNCHANGED state_lock
       /\ evq' = [evq EXCEPT ![s] = Tail(@)]
       /\ rcvd' = [rcvd EXCEPT ![s] = Append(@, e)]
       /\ CASE e.type = "Partial" ->
                 /\ last_partial_text' = [last_partial_text EXCEPT ![s] = TrackPartial(@, e.text)]
                 /\ state' = PartialState(state, e.text)
                 /\ emitted' = Emit(s, <<Event("PartialTranscription", e.text)>>
                                        \o (IF PartialState(state, e.text) # state
                                            THEN <<StateChanged("Transcribing")>> ELSE <<>>))
                 /\ last_sc' = IF PartialState(state, e.text) # state THEN "Transcribing" ELSE last_sc
                 /\ UNCHANGED <<full_transcription, tr_pc, tr_exit>>
            [] e.type = "Committed" ->
                 /\ full_transcription' = [full_transcription EXCEPT ![s] = Accumulate(@, e.text)]
                 /\ emitted' = Emit(s, <<Event("CommittedTranscription", e.text)>>)
                 /\ UNCHANGED <<last_partial_text, state, tr_pc, tr_exit, last_sc>>
            [] e.type = "Error" ->
                 /\ emitted' = Emit(s, <<Event("Error", <<>>)>>)
                 /\ tr_pc' = [tr_pc EXCEPT ![s] = AfterError]
                 /\ tr_exit' = [tr_exit EXCEPT ![s] = "error"]
                 /\ UNCHANGED <<last_partial_text, full_transcription, state, last_sc>>
    /\ UNCHANGED <<audio_capture, level_task, audio_task, transcription_task, calls, prov,
                   n_events, llm_res, audio, lv, capture, enq, sent, stop_calls, llm_calls,
                   out_calls, ended>>

\* event_rx.recv() returns None: the event stream is closed and drained.
TransEnd(s) ==
    /\ UNCHANGED <<pvars, cvars, kvars, xvars>>
    /\ tr_pc[s] = "loop"
    /\ evq[s] = <<>>
    /\ EventStreamClosed(s)
    /\ tr_pc' = [tr_pc EXCEPT ![s] = "complete"]
    /\ tr_exit' = [tr_exit EXCEPT ![s] = "closed"]
    /\ UNCHANGED <<orch, calls, provider, full_transcription, last_partial_text, llm_res,
                   audio, lv, capture, bus, hist>>

\* After the loop: the fallback rule, then either CommandDetected, the write of Processing
\* and its StateChanged, or the write of Idle.
TransComplete(s) ==
    /\ UNCHANGED <<pvars, cvars, kvars, stt_provider>>
    /\ tr_pc[s] = "complete"
    /\ state_lock = 0
    /\ LET full == Fallback(full_transcription[s], last_partial_text[s]) IN
       /\ state_lock' = HeldAfter(IF ShouldProcess(full) THEN "processing" ELSE "idle", s)
       /\ full_transcription' = [full_transcription EXCEPT ![s] = full]
       /\ IF ShouldProcess(full)
          THEN /\ state' = "Processing"
               /\ emitted' = Emit(s, <<Event("CommandDetected", <<>>), StateChanged("Processing")>>)
               /\ last_sc' = "Processing"
               /\ tr_pc' = [tr_pc EXCEPT ![s] = "llm"]
               /\ UNCHANGED ended
          ELSE /\ state' = "Idle"
               /\ ended' = [ended EXCEPT ![s] = Append(@, "Idle")]
               /\ tr_pc' = [tr_pc EXCEPT ![s] = "emit"]
               /\ UNCHANGED bus
    /\ UNCHANGED <<audio_capture, level_task, audio_task, transcription_task, calls, provider,
                   tr_exit, last_partial_text, llm_res, audio, lv, capture, rcvd, enq, sent,
                   stop_calls, llm_calls, out_calls>>

\* llm_processor.process(task) returns Ok(output) or Err; Err emits an Error event.
TransLlm(s) ==
    /\ UNCHANGED <<pvars, cvars, kvars, xvars>>
    /\ tr_pc[s] = "llm"
    /\ llm_calls' = [llm_calls EXCEPT ![s] = Append(@, full_transcription[s])]
    /\ \E r \in LlmResults :
          /\ llm_res' = [llm_res EXCEPT ![s] = r]
          /\ emitted' = IF r = "err" THEN Emit(s, <<Event("Error", <<>>)>>) ELSE emitted
    /\ tr_pc' = [tr_pc EXCEPT ![s] = "output"]
    /\ UNCHANGED <<orch, calls, provider, tr_exit, full_transcription, last_partial_text,
                   audio, lv, capture, last_sc, rcvd, enq, sent, stop_calls, out_calls, ended>>

\* output_sink.output_text(text), which may fail (an Error event in the Ok branch, a log
\* line in the Err branch), then FinalResult with the same text.
TransOutput(s) ==
    /\ UNCHANGED <<pvars, cvars, kvars, xvars>>
    /\ tr_pc[s] = "output"
    /\ LET text == ResultText(llm_res[s], full_transcription[s], LlmText) IN
       /\ out_calls' = [out_calls EXCEPT ![s] = Append(@, text)]
       /\ \E failed \in BOOLEAN :
             emitted' = Emit(s, (IF failed /\ llm_res[s] = "ok" THEN <<Event("Error", <<>>)>> ELSE <<>>)
                                    \o <<Event("FinalResult", text)>>)
    /\ tr_pc' = [tr_pc EXCEPT ![s] = "set"]
    /\ UNCHANGED <<orch, calls, provider, tr_exit, full_transcription, last_partial_text,
                   llm_res, audio, lv, capture, last_sc, rcvd, enq, sent, stop_calls, llm_calls,
                   ended>>

\* The write of Done or Error under the state lock.
TransSet(s) ==
    /\ UNCHANGED <<pvars, cvars, kvars, stt_provider>>
    /\ tr_pc[s] = "set"
    /\ state_lock = 0
    /\ state_lock' = HeldAfter("final", s)
    /\ state' = FinalState(llm_res[s])
    /\ ended' = [ended EXCEPT ![s] = Append(@, FinalState(llm_res[s]))]
    /\ tr_pc' = [tr_pc EXCEPT ![s] = "emit"]
    /\ UNCHANGED <<audio_capture, level_task, audio_task, transcription_task, calls, provider,
                   tr_exit, full_transcription, last_partial_text, llm_res, audio, lv, capture,
                   bus, rcvd, enq, sent, stop_calls, llm_calls, out_calls>>

\* The StateChanged of the state just written, sent after the lock is released.
TransEmit(s) ==
    /\ UNCHANGED <<pvars, cvars, kvars, xvars>>
    /\ tr_pc[s] = "emit"
    /\ emitted' = Emit(s, <<StateChanged(ended[s][Len(ended[s])])>>)
    /\ last_sc' = ended[s][Len(ended[s])]
    /\ tr_pc' = [tr_pc EXCEPT ![s] = "done"]
    /\ UNCHANGED <<orch, calls, provider, tr_exit, full_transcription, last_partial_text,
                   llm_res, audio, lv, capture, hist>>

\* ------------------------------------------------------------------ SttProvider variants
\* The providers of lt-stt, one object at a time: GroqProvider and CustomSttProvider
\* ("batch": a chunker and one upload per flush), ElevenLabsProvider ("stream": one
\* WebSocket per session) and AppleSttProvider ("native": a foreign session with
\* callbacks).  The caller holds &mut self, so the methods run one at a time.

MaxRetries == 10
BaseDelayMs == 1000
MaxDelayMs == 30000
ChunkDurationMs == 3000
U64Bits == 64

ProviderKinds == {"batch", "stream", "native"}
PCallable == {"new", "started", "stopped", "failed"}
UploadTexts == {<<>>, <<" ">>, <<"a">>}
UploadResults ==
    [ok : {TRUE}, text : UploadTexts] \cup [ok : {FALSE}, text : {<<>>}]

\* A provider object as new() returns it.
PNew ==
    /\ p_phase = "new"
    /\ p_calls = <<>>
    /\ p_ret = "none"
    /\ p_input = FALSE
    /\ p_event_tx = FALSE
    /\ p_handle = FALSE
    /\ p_task = "none"
    /\ p_conn = "none"
    /\ p_should_reconnect = FALSE
    /\ p_retry_count = 0
    /\ p_delays = <<>>
    /\ p_audio = <<>>
    /\ p_clock = 0
    /\ p_buffer = 0
    /\ p_last_flush_ms = 0
    /\ p_acc = <<>>
    /\ p_uploads = <<>>
    /\ p_events = <<>>
    /\ p_read = 0
    /\ p_eos = FALSE
    /\ p_forwarded = 0
    /\ p_orphans = 0
    /\ p_teardowns = 0
    /\ p_ctx = 0

NoProvider == p_kind = "none" /\ PNew

Min(a, b) == IF a <= b THEN a ELSE b

RECURSIVE Pow2(_)
Pow2(r) == IF r = 0 THEN 1 ELSE 2 * Pow2(r - 1)

RECURSIVE BitLen(_)
BitLen(n) == IF n = 0 THEN 0 ELSE 1 + BitLen(n \div 2)

\* base_delay_ms * 2u64.pow(retry_count) leaves u64 exactly when the product needs more
\* than 64 bits (a panic in a debug build, a wrapped value in a release build).
Overflows(r) == BitLen(BaseDelayMs) + r > U64Bits

Backoff(r) == BaseDelayMs * Pow2(r)

\* Mutation: the delay without its cap.
DelayUncapped(r) == Backoff(r)

\* std::cmp::min(base_delay_ms * 2^retry_count, max_delay_ms)
Delay(r) == Min(Backoff(r), MaxDelayMs)

DelayOutcomes(r) == IF Overflows(r) THEN 0..MaxDelayMs ELSE {Delay(r)}

\* Mutation: one retry more before giving up.
RetriesExhaustedLate(n) == n > MaxRetries

\* retry_count >= self.reconnect_config.max_retries
RetriesExhausted(n) == n >= MaxRetries

\* A running task (or foreign session) that start_session replaces without stopping it.
Replaced(task) == IF task \in {"run", "final"} THEN 1 ELSE 0

\* start_session(): no variant looks at the session it may already have.
PStartSession ==
    /\ p_phase \in PCallable
    /\ Len(p_calls) < MaxCalls
    /\ p_calls' = Append(p_calls, "start")
    /\ p_event_tx' = TRUE
    /\ p_events' = <<>>
    /\ p_read' = 0
    /\ p_eos' = FALSE
    /\ CASE p_kind = "batch" ->
              /\ p_buffer' = 0
              /\ p_last_flush_ms' = 0
              /\ p_input' = TRUE
              /\ p_audio' = <<>>
              /\ p_acc' = <<>>
              /\ p_uploads' = <<>>
              /\ p_task' = "run"
              /\ p_handle' = TRUE
              /\ p_orphans' = p_orphans + Replaced(p_task)
              /\ p_ret' = "Ok"
              /\ p_phase' = "started"
              /\ UNCHANGED <<p_conn, p_should_reconnect, p_retry_count, p_delays, p_ctx>>
         [] p_kind = "stream" ->
              /\ p_should_reconnect' = TRUE
              /\ p_input' = TRUE
              /\ p_audio' = <<>>
              /\ p_task' = "none"
              /\ p_conn' = "none"
              /\ p_orphans' = p_orphans + Replaced(p_task)
              /\ p_retry_count' = 0
              /\ p_delays' = <<>>
              /\ p_ret' = "none"
              /\ p_phase' = "starting"
              /\ UNCHANGED <<p_handle, p_buffer, p_last_flush_ms, p_acc, p_uploads, p_ctx>>
         [] p_kind = "native" ->
              /\ \E created \in BOOLEAN :
                    IF created
                    THEN /\ p_handle' = TRUE
                         /\ p_input' = TRUE
                         /\ p_task' = "run"
                         /\ p_orphans' = p_orphans + (IF p_input THEN 1 ELSE 0)
                         /\ p_ctx' = p_ctx + 1
                         /\ p_ret' = "Ok"
                         /\ p_phase' = "started"
                    ELSE /\ p_handle' = FALSE
                         /\ p_ret' = "Err"
                         /\ p_phase' = "failed"
                         /\ UNCHANGED <<p_input, p_task, p_orphans, p_ctx>>
              /\ UNCHANGED <<p_audio, p_conn, p_should_reconnect, p_retry_count, p_delays,
                             p_buffer, p_last_flush_ms, p_acc, p_uploads>>
    /\ UNCHANGED <<p_kind, p_clock, p_forwarded, p_teardowns, ovars, cvars, kvars>>

\* connect_with_retry(), one connection attempt per step.
PConnect ==
    /\ p_phase = "starting"
    /\ \E connected \in BOOLEAN :
          IF connected
          THEN /\ p_task' = "run"
               /\ p_conn' = "up"
               /\ p_handle' = TRUE
               /\ p_ret' = "Ok"
               /\ p_phase' = "started"
               /\ p_retry_count' = 0
               /\ p_delays' = <<>>
          ELSE IF RetriesExhausted(p_retry_count)
               THEN /\ p_ret' = "Err"
                    /\ p_phase' = "failed"
                    /\ UNCHANGED <<p_task, p_conn, p_handle, p_retry_count, p_delays>>
               ELSE /\ \E d \in DelayOutcomes(p_retry_count) : p_delays' = Append(p_delays, d)
                    /\ p_retry_count' = p_retry_count + 1
                    /\ UNCHANGED <<p_task, p_conn, p_handle, p_ret, p_phase>>
    /\ UNCHANGED <<p_kind, p_calls, p_input, p_event_tx, p_should_reconnect, p_audio,
                   p_clock, p_buffer, p_last_flush_ms, p_acc, p_uploads, p_events, p_read,
                   p_eos, p_forwarded, p_orphans, p_teardowns, p_ctx, ovars, cvars, kvars>>

\* Mutation: send_audio takes the chunk whether or not a sender is held.
SendAcceptedAlways(input) == TRUE

\* audio_tx / ws_tx is Some; native: the session pointer is not null.
SendAccepted(input) == input

\* The receiving half of the audio channel is still held by the session's task.
ReceiverAlive == p_kind = "native" \/ p_task \in {"run", "final"}

\* Capture timestamps are milliseconds since the capture started.
ChunkTimes == IF p_kind = "batch" THEN {p_clock, p_clock + ChunkDurationMs} ELSE {p_clock}

PSendAudio ==
    /\ p_phase \in PCallable
    /\ Len(p_calls) < MaxCalls
    /\ p_calls' = Append(p_calls, "send")
    /\ \E ts \in ChunkTimes :
          IF SendAccepted(p_input) /\ ReceiverAlive
          THEN /\ p_ret' = "Ok"
               /\ p_forwarded' = p_forwarded + 1
               /\ p_audio' = IF p_kind = "native" THEN p_audio ELSE Append(p_audio, ts)
               /\ p_clock' = ts
          ELSE /\ p_ret' = "Err"
               /\ UNCHANGED <<p_forwarded, p_audio, p_clock>>
    /\ UNCHANGED <<p_kind, p_phase, p_input, p_event_tx, p_handle, p_task, p_conn,
                   p_should_reconnect, p_retry_count, p_delays, p_buffer, p_last_flush_ms,
                   p_acc, p_uploads, p_events, p_read, p_eos, p_orphans, p_teardowns, p_ctx, ovars, cvars, kvars>>

\* Mutation: stop_session joins a task whether or not it holds a handle.
TaskToJoinAlways(handle) == TRUE

\* processing_task / ws_task .take() is Some
TaskToJoin(handle) == handle

\* stop_session() up to the point where it awaits the session's task; the native variant
\* has nothing to await.
PStopSession ==
    /\ p_phase \in PCallable
    /\ Len(p_calls) < MaxCalls
    /\ p_calls' = Append(p_calls, "stop")
    /\ p_input' = FALSE
    /\ p_should_reconnect' = IF p_kind = "stream" THEN FALSE ELSE p_should_reconnect
    /\ IF p_kind = "native"
       THEN /\ p_task' = IF p_input THEN "done" ELSE p_task
            /\ p_teardowns' = p_teardowns + (IF p_input THEN 1 ELSE 0)
            /\ p_handle' = FALSE
            /\ p_ctx' = IF p_handle THEN p_ctx - 1 ELSE p_ctx
            /\ p_ret' = "Ok"
            /\ p_phase' = "stopped"
       ELSE /\ IF TaskToJoin(p_handle)
               THEN p_ret' = "none" /\ p_phase' = "stopping"
               ELSE p_ret' = "Ok" /\ p_phase' = "stopped"
            /\ UNCHANGED <<p_task, p_teardowns, p_handle, p_ctx>>
    /\ UNCHANGED <<p_kind, p_event_tx, p_conn, p_retry_count, p_delays, p_audio, p_clock,
                   p_buffer, p_last_flush_ms, p_acc, p_uploads, p_events, p_read, p_eos,
                   p_forwarded, p_orphans, ovars, cvars, kvars>>

\* The task stop_session awaits has finished: stop_session returns.
PStopReturn ==
    /\ p_phase = "stopping"
    /\ p_task \in {"none", "done"}
    /\ p_task = "none" => p_orphans = 0
    /\ p_handle' = FALSE
    /\ p_teardowns' = p_teardowns + 1
    /\ p_ret' = "Ok"
    /\ p_phase' = "stopped"
    /\ UNCHANGED <<p_kind, p_calls, p_input, p_event_tx, p_task, p_conn,
                   p_should_reconnect, p_retry_count, p_delays, p_audio, p_clock, p_buffer,
                   p_last_flush_ms, p_acc, p_uploads, p_events, p_read, p_eos, p_forwarded,
                   p_orphans, p_ctx, ovars, cvars, kvars>>

\* The provider object is dropped: its fields go, a spawned task runs on detached, the
\* native variant's Drop tears its session down.
PDrop ==
    /\ p_phase \in PCallable
    /\ p_phase' = "dropped"
    /\ p_input' = FALSE
    /\ p_event_tx' = FALSE
    /\ p_handle' = FALSE
    /\ p_task' = IF p_kind = "native" /\ p_input THEN "done" ELSE p_task
    /\ p_ctx' = IF p_kind = "native" /\ p_handle THEN p_ctx - 1 ELSE p_ctx
    /\ UNCHANGED <<p_kind, p_calls, p_ret, p_conn, p_should_reconnect, p_retry_count,
                   p_delays, p_audio, p_clock, p_buffer, p_last_flush_ms, p_acc, p_uploads,
                   p_events, p_read, p_eos, p_forwarded, p_orphans, p_teardowns, ovars, cvars, kvars>>

\* text.trim().is_empty()
IsBlank(t) == \A i \in 1..Len(t) : t[i] = " "

\* Mutation: the accumulator keeps the latest text only.
AccumulateTextLatest(acc, text) == text

\* if !accumulated_text.is_empty() { push(' ') }; push_str(&text)
AccumulateText(acc, text) == (IF acc # <<>> THEN acc \o <<" ">> ELSE acc) \o text

\* AudioChunker::add_chunk on the timestamp kept for the last flush
AddChunk(last, ts) == IF last = 0 THEN ts ELSE last

\* AudioChunker::should_flush
ShouldFlush(buffer, last, ts) ==
    buffer # 0 /\ (IF ts >= last THEN ts - last ELSE 0) >= ChunkDurationMs

\* Mutation: a failed upload clears the accumulator.
UploadedOrCleared(acc, r) ==
    IF r.ok THEN (IF ~IsBlank(r.text) THEN AccumulateText(acc, r.text) ELSE acc) ELSE <<>>

\* What one upload adds to the accumulator.
Uploaded(acc, r) == IF r.ok /\ ~IsBlank(r.text) THEN AccumulateText(acc, r.text) ELSE acc

\* The batch variants' processing task takes one chunk: add_chunk, and when should_flush
\* says so, flush and upload.  (Encoding the buffer as WAV in memory is taken to succeed.)
PBatchRecv ==
    /\ p_kind = "batch"
    /\ p_task = "run"
    /\ p_audio # <<>>
    /\ p_audio' = Tail(p_audio)
    /\ LET ts == Head(p_audio)
           last == AddChunk(p_last_flush_ms, ts)
       IN  IF ShouldFlush(p_buffer + 1, last, ts)
           THEN /\ p_buffer' = 0
                /\ p_last_flush_ms' = 0
                /\ \E r \in UploadResults :
                      /\ p_acc' = Uploaded(p_acc, r)
                      /\ p_events' =
                            IF ~r.ok THEN Append(p_events, Event("Error", <<>>))
                            ELSE IF ~IsBlank(r.text)
                                 THEN Append(p_events, Event("Partial", Uploaded(p_acc, r)))
                                 ELSE p_events
                      /\ p_uploads' = Append(p_uploads, [ok |-> r.ok, text |-> r.text, final |-> FALSE])
           ELSE /\ p_buffer' = p_buffer + 1
                /\ p_last_flush_ms' = last
                /\ UNCHANGED <<p_acc, p_events, p_uploads>>
    /\ UNCHANGED <<p_kind, p_phase, p_calls, p_ret, p_input, p_event_tx, p_handle,
                   p_task, p_conn, p_should_reconnect, p_retry_count, p_delays, p_clock,
                   p_read, p_eos, p_forwarded, p_orphans, p_teardowns, p_ctx, ovars, cvars, kvars>>

\* The stream variant's task takes one chunk and writes it to the socket; a failed write
\* ends its loop.
PStreamRecv ==
    /\ p_kind = "stream"
    /\ p_task = "run"
    /\ p_audio # <<>>
    /\ p_audio' = Tail(p_audio)
    /\ p_task' = IF p_conn = "up" THEN "run" ELSE "final"
    /\ UNCHANGED <<p_kind, p_phase, p_calls, p_ret, p_input, p_event_tx, p_handle,
                   p_conn, p_should_reconnect, p_retry_count, p_delays, p_clock, p_buffer,
                   p_last_flush_ms, p_acc, p_uploads, p_events, p_read, p_eos, p_forwarded,
                   p_orphans, p_teardowns, p_ctx, ovars, cvars, kvars>>

\* audio_rx.recv() returns None: every sender of the audio channel is gone.
PTaskClose ==
    /\ p_kind \in {"batch", "stream"}
    /\ p_task = "run"
    /\ p_audio = <<>>
    /\ ~p_input
    /\ p_task' = "final"
    /\ UNCHANGED <<p_kind, p_phase, p_calls, p_ret, p_input, p_event_tx, p_handle,
                   p_conn, p_should_reconnect, p_retry_count, p_delays, p_audio, p_clock,
                   p_buffer, p_last_flush_ms, p_acc, p_uploads, p_events, p_read, p_eos,
                   p_forwarded, p_orphans, p_teardowns, p_ctx, ovars, cvars, kvars>>

\* After the loop.  batch: the remaining buffer is flushed and uploaded (a failure is only
\* logged), then Committed is sent when the accumulator is not blank.  stream: the socket
\* is closed and the receiver task, which ends with the connection, is awaited.
PTaskFinal ==
    /\ p_kind \in {"batch", "stream"}
    /\ p_task = "final"
    /\ p_task' = "done"
    /\ IF p_kind = "batch"
       THEN /\ p_buffer' = 0
            /\ p_last_flush_ms' = IF p_buffer # 0 THEN 0 ELSE p_last_flush_ms
            /\ \E r \in (IF p_buffer # 0 THEN UploadResults ELSE {[ok |-> FALSE, text |-> <<>>]}) :
                  /\ p_acc' = Uploaded(p_acc, r)
                  /\ p_uploads' =
                        IF p_buffer # 0
                        THEN Append(p_uploads, [ok |-> r.ok, text |-> r.text, final |-> TRUE])
                        ELSE p_uploads
                  /\ p_events' =
                        IF ~IsBlank(Uploaded(p_acc, r))
                        THEN Append(p_events, Event("Committed", Uploaded(p_acc, r)))
                        ELSE p_events
            /\ UNCHANGED p_conn
       ELSE /\ p_conn' = "closed"
            /\ UNCHANGED <<p_buffer, p_last_flush_ms, p_acc, p_uploads, p_events>>
    /\ UNCHANGED <<p_kind, p_phase, p_calls, p_ret, p_input, p_event_tx, p_handle,
                   p_should_reconnect, p_retry_count, p_delays, p_audio, p_clock, p_read,
                   p_eos, p_forwarded, p_orphans, p_teardowns, p_ctx, ovars, cvars, kvars>>

\* A replaced task sees its audio channel closed and ends; a batch task flushes the
\* chunker first, which is the one the new session uses.  A replaced foreign session is
\* never stopped.
POrphanEnd ==
    /\ p_kind \in {"batch", "stream"}
    /\ p_orphans > 0
    /\ p_orphans' = p_orphans - 1
    /\ p_buffer' = 0
    /\ p_last_flush_ms' = IF p_buffer # 0 THEN 0 ELSE p_last_flush_ms
    /\ UNCHANGED <<p_kind, p_phase, p_calls, p_ret, p_input, p_event_tx, p_handle,
                   p_task, p_conn, p_should_reconnect, p_retry_count, p_delays, p_audio,
                   p_clock, p_acc, p_uploads, p_events, p_read, p_eos, p_forwarded,
                   p_teardowns, p_ctx, ovars, cvars, kvars>>

\* The receiver task's event for one server message: transcripts with an empty text are
\* skipped.
ServerMessages == {Event("Partial", t) : t \in Texts} \cup {Event("Committed", t) : t \in Texts}
                      \cup {Event("Error", <<>>)}
Relayed(m) == m.type = "Error" \/ m.text # <<>>

PServerMessage ==
    /\ p_kind = "stream"
    /\ p_task = "run"
    /\ p_conn = "up"
    /\ Len(p_events) < MaxEvents
    /\ \E m \in ServerMessages :
          p_events' = IF Relayed(m) THEN Append(p_events, m) ELSE p_events
    /\ UNCHANGED <<p_kind, p_phase, p_calls, p_ret, p_input, p_event_tx, p_handle,
                   p_task, p_conn, p_should_reconnect, p_retry_count, p_delays, p_audio,
                   p_clock, p_buffer, p_last_flush_ms, p_acc, p_uploads, p_read, p_eos,
                   p_forwarded, p_orphans, p_teardowns, p_ctx, ovars, cvars, kvars>>

\* The established connection is lost: a receive error (reported as an Error event) or a
\* Close from the server.  Either way the receiver task leaves its loop; nothing reads
\* should_reconnect and nothing connects again.
PConnLost ==
    /\ p_kind = "stream"
    /\ p_task = "run"
    /\ p_conn = "up"
    /\ p_conn' = "lost"
    /\ \E how \in {"error", "close"} :
          p_events' = IF how = "error" THEN Append(p_events, Event("Error", <<>>)) ELSE p_events
    /\ UNCHANGED <<p_kind, p_phase, p_calls, p_ret, p_input, p_event_tx, p_handle,
                   p_task, p_should_reconnect, p_retry_count, p_delays, p_audio, p_clock,
                   p_buffer, p_last_flush_ms, p_acc, p_uploads, p_read, p_eos, p_forwarded,
                   p_orphans, p_teardowns, p_ctx, ovars, cvars, kvars>>

\* on_transcription / on_error: the foreign session calls back with the context of the
\* current event channel; any text is forwarded.
NativeEvents == {Event("Partial", t) : t \in Texts} \cup {Event("Committed", t) : t \in Texts}
                    \cup {Event("Error", <<>>)}

PNativeEvent ==
    /\ p_kind = "native"
    /\ p_task = "run"
    /\ p_handle
    /\ Len(p_events) < MaxEvents
    /\ \E e \in NativeEvents : p_events' = Append(p_events, e)
    /\ UNCHANGED <<p_kind, p_phase, p_calls, p_ret, p_input, p_event_tx, p_handle,
                   p_task, p_conn, p_should_reconnect, p_retry_count, p_delays, p_audio,
                   p_clock, p_buffer, p_last_flush_ms, p_acc, p_uploads, p_read, p_eos,
                   p_forwarded, p_orphans, p_teardowns, p_ctx, ovars, cvars, kvars>>

\* Every sender of the event channel is gone: the one in self.event_tx, the task's (or
\* the callback context's) and the one start_session holds while it connects.
PEventStreamClosed ==
    /\ ~p_event_tx
    /\ p_phase # "starting"
    /\ IF p_kind = "native" THEN ~p_handle ELSE p_task \notin {"run", "final"}

\* The subscriber drains the receiver subscribe_events() gave it.
PSubRecv ==
    /\ p_read < Len(p_events)
    /\ p_read' = p_read + 1
    /\ UNCHANGED <<p_kind, p_phase, p_calls, p_ret, p_input, p_event_tx, p_handle,
                   p_task, p_conn, p_should_reconnect, p_retry_count, p_delays, p_audio,
                   p_clock, p_buffer, p_last_flush_ms, p_acc, p_uploads, p_events, p_eos,
                   p_forwarded, p_orphans, p_teardowns, p_ctx, ovars, cvars, kvars>>

PSubEnd ==
    /\ p_read = Len(p_events)
    /\ PEventStreamClosed
    /\ ~p_eos
    /\ p_eos' = TRUE
    /\ UNCHANGED <<p_kind, p_phase, p_calls, p_ret, p_input, p_event_tx, p_handle,
                   p_task, p_conn, p_should_reconnect, p_retry_count, p_delays, p_audio,
                   p_clock, p_buffer, p_last_flush_ms, p_acc, p_uploads, p_events, p_read,
                   p_forwarded, p_orphans, p_teardowns, p_ctx, ovars, cvars, kvars>>

\* ------------------------------------------------------------------ AudioCapture on its own
\* One AudioCapture object (lt-audio/src/capture.rs) driven through start(), stop() and
\* the two subscribe methods, with its three bounded channels: the hardware callback
\* feeds the raw channel, the processing task turns every raw frame into one level and
\* one chunk.  Channels are counted, not listed.  A processing task that a later start()
\* finds still alive is followed no further.

RawCap == 64
LevelCap == 32
CaptureChannels == {"chunks", "levels"}
StartOutcomes == {"ok", "no_device", "build_failed"}

\* A capture object as new() returns it.
CNew ==
    /\ c_calls = <<>>
    /\ c_ret = "none"
    /\ c_running = FALSE
    /\ c_stream = FALSE
    /\ c_handle = FALSE
    /\ c_task = "none"
    /\ c_rx = [ch \in CaptureChannels |-> "none"]
    /\ c_q = [ch \in CaptureChannels |-> 0]
    /\ c_raw = 0
    /\ c_frames = 0

NoCapture == CNew /\ c_bounded = TRUE

\* Mutation: a send that never finds the channel full.
TrySendNUnbounded(n, capacity) == n + 1

\* try_send on a channel holding n items: a full channel drops the item.
TrySendN(n, capacity) == IF n < capacity THEN n + 1 ELSE n

\* Mutation: start() never refuses.
StartRefusedNever(running) == FALSE

\* if self.is_running.load(..) { return Err(AlreadyRunning) }
StartRefused(running) == running

\* start(): AlreadyRunning when the flag is set; NoInputDevice or a config error before
\* anything is touched; otherwise the channels are created, their receivers stored and
\* is_running set before the stream is built, played and the processing task spawned.
CStart ==
    /\ Len(c_calls) < MaxCalls
    /\ c_calls' = Append(c_calls, "start")
    /\ IF StartRefused(c_running)
       THEN /\ c_ret' = "AlreadyRunning"
            /\ UNCHANGED <<c_running, c_stream, c_handle, c_task, c_rx, c_q, c_raw>>
       ELSE \E o \in StartOutcomes :
               IF o = "no_device"
               THEN /\ c_ret' = "Failed"
                    /\ UNCHANGED <<c_running, c_stream, c_handle, c_task, c_rx, c_q, c_raw>>
               ELSE /\ c_rx' = [ch \in CaptureChannels |-> "self"]
                    /\ c_q' = [ch \in CaptureChannels |-> 0]
                    /\ c_raw' = 0
                    /\ c_running' = TRUE
                    /\ c_stream' = (o = "ok")
                    /\ c_handle' = (o = "ok")
                    /\ c_task' = IF o = "ok" THEN "spawned" ELSE "none"
                    /\ c_ret' = IF o = "ok" THEN "Ok" ELSE "Failed"
    /\ UNCHANGED <<c_bounded, c_frames, ovars, pvars, kvars>>

\* stop(): NotStarted when the flag is clear; otherwise the flag is cleared, the stream
\* dropped (which drops the callback and its raw sender) and the task handle dropped.
CStop ==
    /\ Len(c_calls) < MaxCalls
    /\ c_calls' = Append(c_calls, "stop")
    /\ IF ~c_running
       THEN /\ c_ret' = "NotStarted"
            /\ UNCHANGED <<c_running, c_stream, c_handle>>
       ELSE /\ c_running' = FALSE
            /\ c_stream' = FALSE
            /\ c_handle' = FALSE
            /\ c_ret' = "Ok"
    /\ UNCHANGED <<c_task, c_rx, c_q, c_raw, c_bounded, c_frames, ovars, pvars, kvars>>

\* Mutation: subscribing leaves the receiver in place.
TakeKeeps(rx) == rx

\* Option::take on a stored receiver
Take(rx) == IF rx = "self" THEN "taken" ELSE rx

\* subscribe_chunks() / subscribe_levels()
CSubscribe(ch) ==
    /\ Len(c_calls) < MaxCalls
    /\ c_calls' = Append(c_calls, ch)
    /\ c_ret' = IF c_rx[ch] = "self" THEN "Some" ELSE "None"
    /\ c_rx' = [c_rx EXCEPT ![ch] = Take(@)]
    /\ UNCHANGED <<c_running, c_stream, c_handle, c_task, c_q, c_raw, c_bounded, c_frames,
                   ovars, pvars, kvars>>

\* The hardware callback: raw_tx.try_send(samples).
CCallback ==
    /\ c_stream
    /\ c_bounded => c_frames < MaxFrames
    /\ c_frames' = IF c_bounded THEN c_frames + 1 ELSE c_frames
    /\ c_raw' = TrySendN(c_raw, RawCap)
    /\ UNCHANGED <<c_calls, c_ret, c_running, c_stream, c_handle, c_task, c_rx, c_q,
                   c_bounded, ovars, pvars, kvars>>

\* while is_running.load(..): the test at the head of processing_loop.
LoopHead(running) == IF running THEN "recv" ELSE "done"

\* The spawned task runs for the first time.
CTaskBegin ==
    /\ c_task = "spawned"
    /\ c_task' = LoopHead(c_running)
    /\ UNCHANGED <<c_calls, c_ret, c_running, c_stream, c_handle, c_rx, c_q, c_raw,
                   c_bounded, c_frames, ovars, pvars, kvars>>

\* raw_rx.recv() returns a frame: it is resampled, its level and its chunk are offered
\* with try_send, and the loop head is tested again.
CProcess ==
    /\ c_task = "recv"
    /\ c_raw > 0
    /\ c_raw' = c_raw - 1
    /\ c_q' = [chunks |-> TrySendN(c_q["chunks"], ChunkCap),
               levels |-> TrySendN(c_q["levels"], LevelCap)]
    /\ c_task' = LoopHead(c_running)
    /\ UNCHANGED <<c_calls, c_ret, c_running, c_stream, c_handle, c_rx, c_bounded, c_frames,
                   ovars, pvars, kvars>>

\* raw_rx.recv() returns None: the channel is empty and its sender is gone.
CTaskExit ==
    /\ c_task = "recv"
    /\ c_raw = 0
    /\ ~c_stream
    /\ c_task' = "done"
    /\ UNCHANGED <<c_calls, c_ret, c_running, c_stream, c_handle, c_rx, c_q, c_raw,
                   c_bounded, c_frames, ovars, pvars, kvars>>

\* The holder of a receiver takes one item.
CConsume(ch) ==
    /\ c_rx[ch] = "taken"
    /\ c_q[ch] > 0
    /\ c_q' = [c_q EXCEPT ![ch] = @ - 1]
    /\ UNCHANGED <<c_calls, c_ret, c_running, c_stream, c_handle, c_task, c_rx, c_raw,
                   c_bounded, c_frames, ovars, pvars, kvars>>

\* ------------------------------------------------------------------ AudioChunker

SampleRate == 16000
I16Samples == {-2, 258}
ChunkStamps == {0, 1000, 3000, 4000}

RECURSIVE SeqsUpTo(_, _)
SeqsUpTo(S, n) ==
    IF n = 0 THEN {<<>>}
    ELSE SeqsUpTo(S, n - 1) \cup {Append(q, e) : q \in {p \in SeqsUpTo(S, n - 1) : Len(p) = n - 1}, e \in S}

\* AudioChunker::new(3000)
KNew ==
    /\ k_buffer = <<>>
    /\ k_last_flush_ms = 0
    /\ k_call = [op |-> "new", ts |-> 0, data |-> <<>>]
    /\ k_should = FALSE
    /\ k_wav = <<>>
    /\ k_first = -1

\* The n low bytes of v, least significant first.
LE(v, n) == [i \in 1..n |-> (v \div (256 ^ (i - 1))) % 256]

\* write_sample for each sample: 16-bit two's complement, little-endian.
RECURSIVE SampleBytes(_)
SampleBytes(samples) ==
    IF samples = <<>> THEN <<>>
    ELSE LE(Head(samples) % 65536, 2) \o SampleBytes(Tail(samples))

\* encode_wav: the RIFF/WAVE header hound writes for mono 16-bit integer PCM ("RIFF",
\* size, "WAVE", "fmt ", 16, format 1, 1 channel, sample rate, byte rate, block align 2,
\* 16 bits, "data", data size) followed by the samples.
EncodeWav(samples) ==
    LET data == 2 * Len(samples)
    IN  <<82, 73, 70, 70>> \o LE(36 + data, 4) \o <<87, 65, 86, 69>>
          \o <<102, 109, 116, 32>> \o LE(16, 4) \o LE(1, 2) \o LE(1, 2)
          \o LE(SampleRate, 4) \o LE(SampleRate * 2, 4) \o LE(2, 2) \o LE(16, 2)
          \o <<100, 97, 116, 97>> \o LE(data, 4) \o SampleBytes(samples)

KAddChunk ==
    \E ts \in ChunkStamps, data \in SeqsUpTo(I16Samples, MaxSamples - 1) :
       /\ Len(k_buffer) + Len(data) <= MaxSamples
       /\ k_call' = [op |-> "add_chunk", ts |-> ts, data |-> data]
       /\ k_buffer' = k_buffer \o data
       /\ k_last_flush_ms' = AddChunk(k_last_flush_ms, ts)
       /\ k_first' = IF k_first = -1 THEN ts ELSE k_first
       /\ UNCHANGED <<k_should, k_wav, ovars, pvars, cvars>>

KShouldFlush ==
    \E now \in ChunkStamps :
       /\ k_call' = [op |-> "should_flush", ts |-> now, data |-> <<>>]
       /\ k_should' = ShouldFlush(Len(k_buffer), k_last_flush_ms, now)
       /\ UNCHANGED <<k_buffer, k_last_flush_ms, k_wav, k_first, ovars, pvars, cvars>>

\* flush: an empty buffer returns early; otherwise the buffer is encoded, then cleared,
\* and last_flush_ms is set to 0.  (Encoding in memory is taken to succeed.)
KFlush ==
    /\ k_call' = [op |-> "flush", ts |-> 0, data |-> <<>>]
    /\ k_first' = -1
    /\ IF k_buffer = <<>>
       THEN /\ k_wav' = <<>>
            /\ UNCHANGED <<k_buffer, k_last_flush_ms>>
       ELSE /\ k_wav' = EncodeWav(k_buffer)
            /\ k_buffer' = <<>>
            /\ k_last_flush_ms' = 0
    /\ UNCHANGED <<k_should, ovars, pvars, cvars>>

\* ------------------------------------------------------------------ specifications

StartStep(s) == StartSession(s) \/ StartCapture(s) \/ StartAudio(s)
AudioStep(s) == AudioEnd(s) \/ AudioStopReturn(s)
ChunkStep(s) == CaptureChunk(s) \/ CaptureLast(s) \/ AudioRecv(s)
TransStep(s) ==
    TransRecv(s) \/ TransEnd(s) \/ TransComplete(s) \/ TransLlm(s) \/ TransOutput(s)
        \/ TransSet(s) \/ TransEmit(s)

\* One run in full: a single start() is accepted, audio flows.
Init ==
    /\ InitVars
    /\ NoProvider
    /\ KNew
    /\ NoCapture
    /\ start_pc = [s \in Sessions |-> IF s = 1 THEN "init" ELSE "retired"]

Next ==
    \/ StartCall
    \/ Stop
    \/ Reset
    \/ \E s \in Sessions :
          StartStep(s) \/ ProviderEmit(s) \/ CaptureExit(s) \/ ChunkStep(s)
              \/ AudioStep(s) \/ TransStep(s)

Spec == Init /\ [][Next]_vars

\* The scheduler runs every spawned task and every start() call that is under way, and
\* the calls they make return; start(), stop(), reset(), the microphone and the provider's
\* events are the environment's.
Fairness ==
    \A s \in Sessions :
        /\ WF_vars(StartStep(s))
        /\ WF_vars(CaptureExit(s))
        /\ WF_vars(AudioStep(s) \/ AudioRecv(s))
        /\ WF_vars(TransStep(s))

FairSpec == Spec /\ Fairness

\* The state machine over several runs: every session can be started; the audio data
\* is left out (the chunk channels stay empty).
MachineInit ==
    /\ InitVars
    /\ NoProvider
    /\ KNew
    /\ NoCapture
    /\ start_pc = [s \in Sessions |-> "init"]

MachineNext ==
    \/ StartCall
    \/ Stop
    \/ Reset
    \/ \E s \in Sessions :
          StartStep(s) \/ ProviderEmit(s) \/ CaptureExit(s)
              \/ AudioStep(s) \/ TransStep(s)

Machine == MachineInit /\ [][MachineNext]_vars

\* The transcription task alone, on every event stream of up to MaxTranscript events: the
\* session is started, the provider has sent its events and is gone, the task has not
\* yet received any of them.
TranscriptInit ==
    /\ NoProvider
    /\ KNew
    /\ NoCapture
    /\ state = "Recording"
    /\ stt_provider = 0
    /\ state_lock = 0
    /\ audio_capture = 0
    /\ level_task = 0
    /\ audio_task = 1
    /\ transcription_task = 1
    /\ start_pc = [s \in Sessions |-> IF s = 1 THEN "ok" ELSE "retired"]
    /\ ret = "Ok"
    /\ prov = [s \in Sessions |-> IF s = 1 THEN "dropped" ELSE "new"]
    /\ \E q \in SeqsUpTo(TranscriptionEvent(TranscriptTexts), MaxTranscript) :
          /\ evq = [s \in Sessions |-> IF s = 1 THEN q ELSE <<>>]
          /\ n_events = Len(q)
    /\ tr_pc = [s \in Sessions |-> IF s = 1 THEN "loop" ELSE "none"]
    /\ tr_exit = [s \in Sessions |-> "none"]
    /\ full_transcription = [s \in Sessions |-> <<>>]
    /\ last_partial_text = [s \in Sessions |-> <<>>]
    /\ llm_res = [s \in Sessions |-> "none"]
    /\ au_pc = [s \in Sessions |-> IF s = 1 THEN "done" ELSE "none"]
    /\ au_exit = [s \in Sessions |-> IF s = 1 THEN "closed" ELSE "none"]
    /\ lv = [s \in Sessions |-> IF s = 1 THEN "aborted" ELSE "none"]
    /\ cap = [s \in Sessions |-> IF s = 1 THEN "closed" ELSE "none"]
    /\ chq = [s \in Sessions |-> <<>>]
    /\ emitted = [s \in Sessions |-> IF s = 1 THEN <<StateChanged("Recording")>> ELSE <<>>]
    /\ last_sc = "Recording"
    /\ rcvd = [s \in Sessions |-> <<>>]
    /\ enq = [s \in Sessions |-> <<>>]
    /\ sent = [s \in Sessions |-> <<>>]
    /\ stop_calls = [s \in Sessions |-> IF s = 1 THEN 1 ELSE 0]
    /\ llm_calls = [s \in Sessions |-> <<>>]
    /\ out_calls = [s \in Sessions |-> <<>>]
    /\ ended = [s \in Sessions |-> <<>>]
    /\ n_chunks = 0

TranscriptNext == \E s \in Sessions : TransStep(s)

Transcript == TranscriptInit /\ [][TranscriptNext]_vars

\* One provider object driven through its methods by any caller.
PTaskStep == PBatchRecv \/ PStreamRecv \/ PTaskClose \/ PTaskFinal \/ POrphanEnd
PSubStep == PSubRecv \/ PSubEnd

ProvidersInit ==
    /\ InitVars
    /\ start_pc = [s \in Sessions |-> "retired"]
    /\ p_kind \in ProviderKinds
    /\ PNew
    /\ KNew
    /\ NoCapture

ProvidersNext ==
    \/ PStartSession
    \/ PConnect
    \/ PSendAudio
    \/ PStopSession
    \/ PStopReturn
    \/ PDrop
    \/ PTaskStep
    \/ PServerMessage
    \/ PConnLost
    \/ PNativeEvent
    \/ PSubStep

Providers == ProvidersInit /\ [][ProvidersNext]_vars

\* The scheduler runs the spawned tasks and the subscriber, connection attempts and
\* awaited joins return; the caller, the server and the foreign session are the
\* environment's.
ProvidersFairness ==
    /\ WF_vars(PConnect)
    /\ WF_vars(PStopReturn)
    /\ WF_vars(PTaskStep)
    /\ WF_vars(PSubStep)

FairProviders == Providers /\ ProvidersFairness

\* One capture object, any caller, up to MaxFrames frames from the hardware.
CTaskStep == CTaskBegin \/ CProcess \/ CTaskExit

CaptureInit ==
    /\ InitVars
    /\ start_pc = [s \in Sessions |-> "retired"]
    /\ NoProvider
    /\ KNew
    /\ NoCapture

CaptureNext ==
    \/ CStart
    \/ CStop
    \/ CCallback
    \/ CTaskStep
    \/ \E ch \in CaptureChannels : CSubscribe(ch) \/ CConsume(ch)

Capture == CaptureInit /\ [][CaptureNext]_vars

\* A started capture whose receivers are both subscribed, with hardware and consumers
\* of any speed; no call is made.
ChannelsInit ==
    /\ InitVars
    /\ start_pc = [s \in Sessions |-> "retired"]
    /\ NoProvider
    /\ KNew
    /\ c_calls = <<"start", "chunks", "levels">>
    /\ c_ret = "Some"
    /\ c_running = TRUE
    /\ c_stream = TRUE
    /\ c_handle = TRUE
    /\ c_task = "recv"
    /\ c_rx = [ch \in CaptureChannels |-> "taken"]
    /\ c_q = [ch \in CaptureChannels |-> 0]
    /\ c_raw = 0
    /\ c_frames = 0
    /\ c_bounded = FALSE

ChannelsNext ==
    \/ CCallback
    \/ CProcess
    \/ \E ch \in CaptureChannels : CConsume(ch)

Channels == ChannelsInit /\ [][ChannelsNext]_vars

\* An AudioChunker on its own, called in any order.
ChunkerInit ==
    /\ InitVars
    /\ start_pc = [s \in Sessions |-> "retired"]
    /\ NoProvider
    /\ KNew
    /\ NoCapture

ChunkerNext ==
    \/ KAddChunk
    \/ KShouldFlush
    \/ KFlush

Chunker == ChunkerInit /\ [][ChunkerNext]_vars

\* ------------------------------------------------------------------ properties

IsPrefix(p, q) == Len(p) <= Len(q) /\ SubSeq(q, 1, Len(p)) = p

\* The events of type ty a session emitted, in emission order.
IsType(ty, e) == e.type = ty
EventsOf(ty, s) ==
    LET Is(e) == IsType(ty, e) IN SelectSeq(emitted[s], Is)

StartUnderWay(s) == start_pc[s] \in {"session", "capture", "audio"}

\* C1: a start() made while the state is Recording, Transcribing or Processing, also one
\* that races a start() which has passed the state check, fails with InvalidState and
\* changes nothing else: not the state, not the events emitted, no task, no provider
\* session, no capture.
C1_StartRejected ==
    [][(StartCall /\ state \in Busy)
          => /\ ret' = "InvalidState"
             /\ UNCHANGED <<orch, start_pc, provider, trans, audio, lv, capture, bus, hist>>]_vars

\* A start() was rejected while another start() was still under way.
C1_Witness ==
    /\ ret = "InvalidState"
    /\ state \in Busy
    /\ \E s \in Sessions : StartUnderWay(s)

\* C2: once stop() has been called in Recording or Transcribing, the state eventually is
\* Idle, Done or Error (tasks scheduled fairly, provider, LLM and output calls returning).
C2_StopSettles == (ret = "Stopped") ~> (state \in Settled)

\* C3: the chunks passed to send_audio are the chunks placed in the chunk channel, in
\* channel order and without a gap; a forwarding loop that ended on the closed channel
\* has passed all of them; stop_session is called once, when the loop is left, and no
\* send_audio follows it; a stopped capture leads to the end of the forwarding task.
C3_Forwarded ==
    \A s \in Sessions :
        /\ IsPrefix(sent[s], enq[s])
        /\ au_exit[s] = "closed" => sent[s] = enq[s]
        /\ stop_calls[s] = (IF au_pc[s] \in {"stopping", "done"} THEN 1 ELSE 0)

C3_NoChunkLost ==
    /\ []C3_Forwarded
    /\ [][\A s \in Sessions : stop_calls[s] > 0 => sent'[s] = sent[s]]_vars
    /\ \A s \in Sessions : (cap[s] = "stopping") ~> (au_pc[s] = "done")

\* After stop(), every chunk captured was forwarded, the last one placed while stop() ran.
C3_Witness ==
    \E s \in Sessions :
        /\ au_pc[s] = "done"
        /\ au_exit[s] = "closed"
        /\ Len(sent[s]) = MaxChunks
        /\ ret = "Stopped"

\* C4: no orchestrator operation aborts the audio-forwarding task or the transcription
\* task; stop() and reset() abort the level task only. The audio-forwarding task leaves
\* its loop on the closed chunk channel or on a failed send_audio, the transcription task
\* on the closed event stream or on a provider Error.
C4_OnlyLevelAborted ==
    \A s \in Sessions :
        /\ au_pc[s] # "aborted"
        /\ tr_pc[s] # "aborted"
        /\ au_pc[s] \in {"stopping", "done"} => au_exit[s] \in {"closed", "send_err"}
        /\ au_exit[s] = "closed" => cap[s] = "closed"
        /\ tr_pc[s] \notin {"none", "loop"} => tr_exit[s] \in {"closed", "error"}
        /\ tr_exit[s] = "closed" => prov[s] = "dropped"

\* stop() aborted the level task; both other tasks ran to their end.
C4_Witness ==
    \E s \in Sessions :
        /\ lv[s] = "aborted"
        /\ au_pc[s] = "done"
        /\ tr_pc[s] = "done"
        /\ au_exit[s] = "closed"
        /\ tr_exit[s] = "closed"

\* The texts of the events of type ty among the received events evs, in arrival order.
RECURSIVE TextsOf(_, _)
TextsOf(ty, evs) ==
    IF evs = <<>> THEN <<>>
    ELSE (IF Head(evs).type = ty THEN <<Head(evs).text>> ELSE <<>>) \o TextsOf(ty, Tail(evs))

\* ts joined by single spaces.
RECURSIVE JoinTexts(_)
JoinTexts(ts) ==
    IF ts = <<>> THEN <<>>
    ELSE IF Len(ts) = 1 THEN ts[1]
    ELSE ts[1] \o <<" ">> \o JoinTexts(Tail(ts))

\* ts from its first non-empty text on.
RECURSIVE FromFirstNonEmpty(_)
FromFirstNonEmpty(ts) ==
    IF ts = <<>> THEN <<>>
    ELSE IF Head(ts) # <<>> THEN ts
    ELSE FromFirstNonEmpty(Tail(ts))

\* The last non-empty text of ts, empty when there is none.
RECURSIVE LastNonEmpty(_)
LastNonEmpty(ts) ==
    IF ts = <<>> THEN <<>>
    ELSE IF ts[Len(ts)] # <<>> THEN ts[Len(ts)]
    ELSE LastNonEmpty(SubSeq(ts, 1, Len(ts) - 1))

\* The transcription task has left its loop and applied the fallback rule.
Finalised(s) == tr_pc[s] \in {"llm", "output", "set", "emit", "done"}

\* The final transcription as stated: every Committed text joined, if there was one.
JoinedFinal(evs) ==
    IF TextsOf("Committed", evs) # <<>>
    THEN JoinTexts(TextsOf("Committed", evs))
    ELSE LastNonEmpty(TextsOf("Partial", evs))

\* The final transcription with the Committed texts counted from the first non-empty one.
AccumulatedFinal(evs) ==
    IF FromFirstNonEmpty(TextsOf("Committed", evs)) # <<>>
    THEN JoinTexts(FromFirstNonEmpty(TextsOf("Committed", evs)))
    ELSE LastNonEmpty(TextsOf("Partial", evs))

Completed(s) == tr_pc[s] \in {"emit", "done"}

\* The texts of the FinalResult events a session emitted.
FinalResults(s) == [i \in 1..Len(EventsOf("FinalResult", s)) |-> EventsOf("FinalResult", s)[i].text]

\* C6: with a non-empty final transcription and a failing LLM call, the raw transcription
\* is written to the output sink, FinalResult carries the raw transcription, and the run
\* ends in Error.
C6_LlmFailure ==
    \A s \in Sessions :
        (Completed(s) /\ llm_res[s] = "err")
            => /\ full_transcription[s] # <<>>
               /\ out_calls[s] = <<full_transcription[s]>>
               /\ FinalResults(s) = <<full_transcription[s]>>
               /\ ended[s] = <<"Error">>
               /\ (\A t \in Sessions : t > s => start_pc[t] \in {"init", "retired"}) => state = "Error"

C6_Witness ==
    \E s \in Sessions :
        /\ tr_pc[s] = "done"
        /\ llm_res[s] = "err"
        /\ out_calls[s] = <<<<"a">>>>
        /\ state = "Error"

\* C7: with a non-empty final transcription and a successful LLM call, the LLM's text is
\* written to the output sink, FinalResult carries exactly that text, and the run ends in
\* Done.
C7_LlmSuccess ==
    \A s \in Sessions :
        (Completed(s) /\ llm_res[s] = "ok")
            => /\ full_transcription[s] # <<>>
               /\ llm_calls[s] = <<full_transcription[s]>>
               /\ out_calls[s] = <<LlmText>>
               /\ FinalResults(s) = <<LlmText>>
               /\ ended[s] = <<"Done">>
               /\ (\A t \in Sessions : t > s => start_pc[t] \in {"init", "retired"}) => state = "Done"

C7_Witness ==
    \E s \in Sessions :
        /\ tr_pc[s] = "done"
        /\ llm_res[s] = "ok"
        /\ out_calls[s] = <<LlmText>>
        /\ state = "Done"

\* C8: with an empty final transcription the state returns to Idle, and in that run the
\* LLM processor and the output sink are not called and neither CommandDetected nor
\* FinalResult is emitted.
C8_EmptyReturnsToIdle ==
    \A s \in Sessions :
        (Completed(s) /\ full_transcription[s] = <<>>)
            => /\ ended[s] = <<"Idle">>
               /\ llm_calls[s] = <<>>
               /\ out_calls[s] = <<>>
               /\ EventsOf("CommandDetected", s) = <<>>
               /\ EventsOf("FinalResult", s) = <<>>
               /\ (\A t \in Sessions : t > s => start_pc[t] \in {"init", "retired"}) => state = "Idle"

\* A run that received nothing but an empty text before its event stream ended is back
\* in Idle.
C8_Witness ==
    \E s \in Sessions :
        /\ tr_pc[s] = "done"
        /\ tr_exit[s] = "closed"
        /\ rcvd[s] # <<>>
        /\ full_transcription[s] = <<>>
        /\ state = "Idle"

\* C9: in a run the LLM processor is called at most once and the output sink at most
\* once; when the final transcription is not empty both are called exactly once and
\* exactly one FinalResult is emitted.
C9_OncePerRun ==
    \A s \in Sessions :
        /\ Len(llm_calls[s]) <= 1
        /\ Len(out_calls[s]) <= 1
        /\ Len(EventsOf("FinalResult", s)) <= 1
        /\ (tr_pc[s] = "done" /\ full_transcription[s] # <<>>)
              => /\ Len(llm_calls[s]) = 1
                 /\ Len(out_calls[s]) = 1
                 /\ Len(EventsOf("FinalResult", s)) = 1

\* A run whose transcription came from the fallback rule made its one call of each.
C9_Witness ==
    \E s \in Sessions :
        /\ tr_pc[s] = "done"
        /\ TextsOf("Committed", rcvd[s]) = <<>>
        /\ Len(llm_calls[s]) = 1
        /\ Len(out_calls[s]) = 1
        /\ Len(EventsOf("FinalResult", s)) = 1

\* The edges of the state machine as stated.
StatedEdges ==
    {<<"Idle", "Recording">>, <<"Recording", "Transcribing">>, <<"Transcribing", "Processing">>,
     <<"Processing", "Done">>, <<"Processing", "Error">>,
     <<"Recording", "Idle">>, <<"Transcribing", "Idle">>,
     <<"Done", "Recording">>, <<"Error", "Recording">>}

\* C10 as stated: every change of the state is one of the stated edges, and a change to
\* Recording is made by an accepted start().
C10_StatedEdges ==
    [][state' # state
          => /\ <<state, state'>> \in StatedEdges
             /\ state' = "Recording" => start_pc' # start_pc]_vars

\* C10 amended: the edges are the stated ones and Recording -> Processing, taken when the
\* event stream ends with a non-empty transcription and no non-empty Partial was received;
\* Idle, Done and Error are left only by an accepted start(), to Recording.
C10_Edges ==
    [][state' # state
          => /\ <<state, state'>> \in StatedEdges \cup {<<"Recording", "Processing">>}
             /\ state' = "Recording" => start_pc' # start_pc
             /\ state \in Settled => state' = "Recording"]_vars

\* A later run went from Recording to Processing: no Transcribing was announced.
C10_Witness ==
    \E s \in Sessions :
        /\ s > 1
        /\ state = "Processing"
        /\ tr_pc[s] = "llm"
        /\ EventsOf("StateChanged", s) = <<StateChanged("Recording"), StateChanged("Processing")>>

\* C11: a start() in Done or Error is accepted: the state becomes Recording,
\* StateChanged(Recording) is emitted, and the call goes on to start the provider session
\* of a new run, as a start() in Idle does.
C11_StartAfterRun ==
    [][(StartCall /\ state \in {"Done", "Error"})
          => /\ state' = "Recording"
             /\ last_sc' = "Recording"
             /\ NextSession # 0
             /\ emitted'[NextSession] = <<StateChanged("Recording")>>
             /\ start_pc'[NextSession] = "session"
             /\ UNCHANGED ret]_vars

\* The run before ended in Done or Error, and the new run has its provider session, its
\* transcription task and its capture.
C11_Witness ==
    \E s, t \in Sessions :
        /\ t < s
        /\ ended[t] \in {<<"Done">>, <<"Error">>}
        /\ state = "Recording"
        /\ EventsOf("StateChanged", s) = <<StateChanged("Recording")>>
        /\ prov[s] = "started"
        /\ tr_pc[s] = "loop"
        /\ cap[s] = "running"

\* C12: when provider.start_session() fails, start() returns that error, and the run has
\* no transcription task, no audio-forwarding task, no level task and no capture.
C12_SessionFailureAborts ==
    \A s \in Sessions :
        prov[s] = "failed"
            => /\ start_pc[s] = "err"
               /\ tr_pc[s] = "none"
               /\ au_pc[s] = "none"
               /\ lv[s] = "none"
               /\ cap[s] = "none"
               /\ transcription_task # s /\ audio_task # s /\ level_task # s /\ audio_capture # s

\* start() has just returned the provider's error.
C12_Witness ==
    \E s \in Sessions :
        /\ prov[s] = "failed"
        /\ start_pc[s] = "err"
        /\ ret = "SttError"

\* ------------------------------------------------------------------ provider properties

\* The step is a call of method m.
Called(m) == p_calls' = Append(p_calls, m)
LastCall == IF p_calls = <<>> THEN "none" ELSE p_calls[Len(p_calls)]

\* What a running session consists of: its channels, its task, its foreign handle.
PSession == <<p_input, p_event_tx, p_handle, p_task, p_conn, p_audio, p_events, p_read,
              p_buffer, p_last_flush_ms, p_acc, p_orphans>>

\* C13: start_session() on a provider whose session is already started fails with an
\* error and leaves the running session untouched.
C13_RestartRejected ==
    [][(Called("start") /\ p_phase = "started")
          => (p_ret' # "Ok" /\ p_phase' = "started" /\ UNCHANGED PSession)]_vars

\* C14: send_audio with no session started (before the first start_session, after
\* stop_session) returns an error and forwards nothing.
C14_SendNeedsSession ==
    [][(Called("send") /\ p_phase \in {"new", "stopped"})
          => (p_ret' = "Err" /\ UNCHANGED <<p_audio, p_forwarded, PSession>>)]_vars

\* A session was started and stopped, and the send_audio that followed was refused.
C14_Witness ==
    /\ Len(p_calls) >= 3
    /\ SubSeq(p_calls, Len(p_calls) - 2, Len(p_calls)) = <<"start", "stop", "send">>
    /\ p_phase = "stopped"
    /\ p_teardowns > 0
    /\ p_ret = "Err"

\* C15: stop_session() with no session started (a second stop_session, or one before any
\* start) returns Ok and changes nothing: no flush or upload, no event, no second
\* teardown of the task, the foreign session or the callback context.
C15_StopIdempotent ==
    [][(Called("stop") /\ p_phase \in {"new", "stopped"})
          => (p_ret' = "Ok" /\ p_phase' = "stopped"
                 /\ UNCHANGED <<PSession, p_uploads, p_forwarded, p_teardowns>>)]_vars

\* A started session was stopped twice; it was torn down once.
C15_Witness ==
    /\ Len(p_calls) >= 3
    /\ SubSeq(p_calls, Len(p_calls) - 2, Len(p_calls)) = <<"start", "stop", "stop">>
    /\ p_phase = "stopped"
    /\ p_ret = "Ok"
    /\ p_teardowns = 1

\* C16: once stop_session() has returned and while the provider object is alive, a
\* subscriber that drains the event stream receives the remaining events and then the
\* end of the stream.
C16_StreamCloses == (p_phase = "stopped" /\ p_event_tx) ~> (p_eos \/ p_phase # "stopped")

\* C17: when the established connection of a started stream session is lost while
\* reconnection is enabled, a reconnect is attempted: the connection comes up again or a
\* backoff delay is slept, unless the caller ends the session first.
C17_Reconnects ==
    (p_kind = "stream" /\ p_phase = "started" /\ p_conn = "lost" /\ p_should_reconnect)
        ~> (p_conn = "up" \/ p_delays # <<>> \/ p_phase # "started")

\* The delays stated for retries 0..9, in milliseconds.
ExpectedDelays == <<1000, 2000, 4000, 8000, 16000, 30000, 30000, 30000, 30000, 30000>>

\* C18: the delay slept before retry r (0..9) is min(1000 * 2^r, 30000) ms, that is
\* 1000, 2000, 4000, 8000, 16000 and then 30000; the delays never decrease, never
\* exceed the cap, and the product does not overflow for any r up to max_retries.
C18_BackoffDelays ==
    /\ Len(p_delays) <= Len(ExpectedDelays)
    /\ \A i \in 1..Len(p_delays) :
          /\ p_delays[i] = ExpectedDelays[i]
          /\ p_delays[i] <= MaxDelayMs
          /\ i > 1 => p_delays[i - 1] <= p_delays[i]
    /\ \A r \in 0..MaxRetries : ~Overflows(r)

\* connect_with_retry has slept before every one of its retries.
C18_Witness ==
    /\ p_phase = "starting"
    /\ p_retry_count = MaxRetries
    /\ Len(p_delays) = MaxRetries

\* C19: connect_with_retry always terminates: it returns the connection on the first
\* attempt that succeeds, and when every attempt fails it makes max_retries retries after
\* the first attempt and then fails, so that start_session fails with no session task
\* spawned.
C19_ConnectTerminates ==
    /\ [](/\ p_retry_count <= MaxRetries
          /\ (p_kind = "stream" /\ p_phase = "failed")
                => /\ p_retry_count = MaxRetries
                   /\ Len(p_delays) = MaxRetries
                   /\ p_ret = "Err"
                   /\ p_task = "none"
                   /\ p_conn = "none"
          /\ (p_kind = "stream" /\ p_phase = "started" /\ LastCall = "start")
                => p_ret = "Ok" /\ p_conn # "none")
    /\ (p_phase = "starting") ~> (p_phase \in {"started", "failed"})

\* Every attempt failed: start_session has returned the error of the last one.
C19_Witness ==
    /\ p_kind = "stream"
    /\ LastCall = "start"
    /\ p_phase = "failed"
    /\ p_ret = "Err"
    /\ p_retry_count = MaxRetries

\* The uploads that returned a text (one that is not blank), their texts in order, and
\* how many of them were triggered by should_flush.
Transcribed == SelectSeq(p_uploads, LAMBDA u : u.ok /\ ~IsBlank(u.text))
UploadedTexts == [i \in 1..Len(Transcribed) |-> Transcribed[i].text]
FlushUploads == Len(SelectSeq(Transcribed, LAMBDA u : ~u.final))

\* C20: in a batch session every upload triggered by should_flush that returns a text
\* emits one Partial carrying the space-joined texts of all chunks transcribed so far;
\* once the audio input is closed the remaining buffer is flushed and one Committed with
\* the accumulator plus the final text is sent exactly when that text is not empty; no
\* Committed is sent before the input closes and no Partial after the Committed.
C20_BatchEvents ==
    p_kind = "batch" =>
        LET partials == TextsOf("Partial", p_events)
            committed == TextsOf("Committed", p_events)
        IN  /\ Len(partials) = FlushUploads
            /\ \A i \in 1..Len(partials) : partials[i] = JoinTexts(SubSeq(UploadedTexts, 1, i))
            /\ Len(committed) <= 1
            /\ committed # <<>> =>
                  /\ ~p_input
                  /\ p_task = "done"
                  /\ p_buffer = 0
                  /\ p_events[Len(p_events)].type = "Committed"
                  /\ committed[1] = JoinTexts(UploadedTexts)
            /\ p_task = "done" => (committed # <<>> <=> JoinTexts(UploadedTexts) # <<>>)
            /\ \A i \in 1..Len(p_uploads) : p_uploads[i].final => i = Len(p_uploads) /\ p_task = "done"
            /\ (p_task = "run" /\ p_input) => \A i \in 1..Len(p_uploads) : ~p_uploads[i].final

\* One flush in the loop and the final flush both returned a text: one Partial, then the
\* Committed with both texts.
C20_Witness ==
    /\ p_kind = "batch"
    /\ p_task = "done"
    /\ Len(p_uploads) = 2
    /\ p_uploads[2].final
    /\ p_uploads[1].ok /\ p_uploads[2].ok
    /\ TextsOf("Partial", p_events) = << <<"a">> >>
    /\ TextsOf("Committed", p_events) = << <<"a", " ", "a">> >>

\* The uploads triggered by should_flush that failed.
FailedFlushUploads == SelectSeq(p_uploads, LAMBDA u : ~u.ok /\ ~u.final)

\* C21: in a batch session a failed upload of one chunk sends one Error event, leaves the
\* accumulator as it was and does not end the session: the task stays in its loop, and
\* at the end of the session the Committed with the accumulated text is still sent.
C21_UploadFailureTolerated ==
    /\ [][(p_kind = "batch" /\ Len(p_uploads') = Len(p_uploads) + 1
              /\ ~p_uploads'[Len(p_uploads')].ok /\ ~p_uploads'[Len(p_uploads')].final)
             => (/\ p_events' = Append(p_events, Event("Error", <<>>))
                 /\ p_acc' = p_acc
                 /\ p_task' = "run"
                 /\ p_task = "run")]_vars
    /\ [](p_kind = "batch" =>
             /\ Len(TextsOf("Error", p_events)) = Len(FailedFlushUploads)
             /\ p_acc = JoinTexts(UploadedTexts)
             /\ p_task = "done" =>
                   TextsOf("Committed", p_events) = (IF p_acc # <<>> THEN <<p_acc>> ELSE <<>>))

\* The upload of the first flush failed; the session went on, uploaded the rest at its
\* end and sent the Committed.
C21_Witness ==
    /\ p_kind = "batch"
    /\ p_task = "done"
    /\ p_uploads = << [ok |-> FALSE, text |-> <<>>, final |-> FALSE],
                     [ok |-> TRUE, text |-> <<"a">>, final |-> TRUE] >>
    /\ p_events = << Event("Error", <<>>), Event("Committed", <<"a">>) >>

\* C22: on a native provider every callback context on the heap is the one the provider
\* holds and belongs to its live foreign session, whatever start_session, stop_session
\* and drop were made: none is leaked, none outlives or loses its session, and no
\* foreign session is left behind unstopped.
C22_ContextsPaired ==
    p_kind = "native" =>
        /\ p_ctx = (IF p_handle THEN 1 ELSE 0)
        /\ p_handle => p_input
        /\ p_orphans = 0

\* ------------------------------------------------------------------ capture properties

\* The step is a call of method m of the capture.
CCalled(m) == c_calls' = Append(c_calls, m)
CLastCall == IF c_calls = <<>> THEN "none" ELSE c_calls[Len(c_calls)]

\* C23: start() on a running capture (is_running() is true) fails with AlreadyRunning
\* and leaves stream, channels and task untouched; stop() on a capture that is not
\* running fails with NotStarted and changes nothing; a stop() on a running capture
\* succeeds and leaves it not running, without stream or task handle, and a start() on a
\* capture that is not running is never refused as AlreadyRunning.
C23_StartStopGuards ==
    [][/\ (CCalled("start") /\ c_running)
            => (c_ret' = "AlreadyRunning"
                  /\ UNCHANGED <<c_running, c_stream, c_handle, c_task, c_rx, c_q, c_raw>>)
       /\ (CCalled("stop") /\ ~c_running)
            => (c_ret' = "NotStarted"
                  /\ UNCHANGED <<c_running, c_stream, c_handle, c_task, c_rx, c_q, c_raw>>)
       /\ (CCalled("stop") /\ c_running)
            => (c_ret' = "Ok" /\ ~c_running' /\ ~c_stream' /\ ~c_handle')
       /\ (CCalled("start") /\ ~c_running) => c_ret' # "AlreadyRunning"]_vars

\* A started capture refused a second start(), was stopped, and was started again.
C23_Witness ==
    /\ c_calls = <<"start", "start", "stop", "start">>
    /\ c_ret = "Ok"
    /\ c_running
    /\ c_stream
    /\ c_task = "recv"

\* C24: subscribe_chunks() and subscribe_levels() return the receiver on the first call
\* after a start() that created the channels and nothing on every later call; before
\* any start() they return nothing: each channel gets at most one consumer per session.
C24_SubscribeOnce ==
    /\ [][\A ch \in CaptureChannels :
             CCalled(ch) =>
                /\ c_ret' = (IF c_rx[ch] = "self" THEN "Some" ELSE "None")
                /\ c_rx'[ch] # "self"
                /\ CLastCall = ch => c_ret' = "None"]_vars
    /\ [](/\ (\A i \in 1..Len(c_calls) : c_calls[i] # "start")
                => \A ch \in CaptureChannels : c_rx[ch] = "none"
          /\ (CLastCall = "start" /\ c_ret = "Ok")
                => \A ch \in CaptureChannels : c_rx[ch] = "self")

\* The second subscribe_chunks() of a session returned nothing.
C24_Witness ==
    /\ c_calls = <<"start", "chunks", "chunks">>
    /\ c_running
    /\ c_rx["chunks"] = "taken"
    /\ c_ret = "None"

\* C25: no producer blocks on a full channel. The raw channel never holds more than 64
\* frames and the chunk and level channels never more than 32 items; a processing step
\* enqueues the chunk when the chunk channel has room and drops it when it is full,
\* whatever the level channel holds, and the same for the level; after the step the task
\* is back at its receive, and the hardware callback can still run.
C25_NeverBlocks ==
    /\ [](/\ c_raw <= RawCap
          /\ c_q["chunks"] <= ChunkCap
          /\ c_q["levels"] <= LevelCap
          /\ c_stream => ENABLED CCallback)
    /\ [][c_raw' < c_raw =>
             /\ c_q'["chunks"]
                   = (IF c_q["chunks"] < ChunkCap THEN c_q["chunks"] + 1 ELSE ChunkCap)
             /\ c_q'["levels"]
                   = (IF c_q["levels"] < LevelCap THEN c_q["levels"] + 1 ELSE LevelCap)
             /\ c_task' = "recv"]_vars

\* All three channels are full at once.
C25_Witness ==
    /\ c_stream
    /\ c_task = "recv"
    /\ c_raw = RawCap
    /\ c_q["chunks"] = ChunkCap
    /\ c_q["levels"] = LevelCap

\* C26: after stop() the processing task ends only once the raw channel is drained: when
\* the task has exited, no frame that the callback enqueued is left unprocessed.
C26_DrainsBeforeExit ==
    (c_task = "done" /\ ~c_running) => c_raw = 0

\* ------------------------------------------------------------------ chunker properties

\* C28: add_chunk appends the chunk's samples and keeps, as the flush timestamp, the
\* timestamp of the first chunk added since the last flush or since creation, whatever
\* that timestamp is, 0 included; a later chunk does not change it.
C28_FirstTimestampRecorded ==
    [][k_call'.op = "add_chunk" =>
          /\ k_buffer' = k_buffer \o k_call'.data
          /\ k_last_flush_ms' = (IF k_first = -1 THEN k_call'.ts ELSE k_first)]_vars

\* C27: should_flush(now) is false when the buffer is empty, and otherwise true exactly
\* when now minus the timestamp of the first chunk added since the last flush is at
\* least chunk_duration_ms.
C27_ShouldFlushByFirstChunk ==
    k_call.op = "should_flush" =>
        (k_should <=> (k_buffer # <<>> /\ k_call.ts - k_first >= ChunkDurationMs))

\* C29: flush() leaves the buffer empty and the flush timestamp reset; it returns no
\* bytes exactly when the buffer was empty, and otherwise 44 header bytes followed by the
\* two bytes of each buffered sample, in order; a flush right after a flush returns no
\* bytes.
C29_FlushResets ==
    [][k_call'.op = "flush" =>
          /\ k_buffer' = <<>>
          /\ k_last_flush_ms' = 0
          /\ k_wav' = <<>> <=> k_buffer = <<>>
          /\ k_buffer # <<>> =>
                /\ Len(k_wav') = 44 + 2 * Len(k_buffer)
                /\ \A i \in 1..Len(k_buffer) :
                      k_wav'[44 + 2 * i - 1] + 256 * k_wav'[44 + 2 * i] = k_buffer[i] % 65536
          /\ k_call.op = "flush" => k_wav' = <<>>]_vars

\* ------------------------------------------------------------------ provider errors

\* C30: on a provider Error event the transcription task emits an Error event and leaves
\* its loop: it receives no further event of that session, and the completion logic runs
\* on what was accumulated up to the Error: with a text, CommandDetected, one LLM call on
\* that text and one write to the output sink; without, the return to Idle.
C30_ErrorEndsLoop ==
    /\ [][\A s \in Sessions :
             (tr_pc[s] = "loop" /\ Len(rcvd'[s]) > Len(rcvd[s]) /\ Head(evq[s]).type = "Error")
                => /\ emitted'[s] = Append(emitted[s], Event("Error", <<>>))
                   /\ tr_pc'[s] = "complete"
                   /\ full_transcription'[s] = full_transcription[s]
                   /\ last_partial_text'[s] = last_partial_text[s]]_vars
    /\ [][\A s \in Sessions : tr_exit[s] = "error" => rcvd'[s] = rcvd[s] /\ evq'[s] = evq[s]]_vars
    /\ [](\A s \in Sessions :
             tr_exit[s] = "error" =>
                /\ rcvd[s][Len(rcvd[s])].type = "Error"
                /\ tr_pc[s] # "loop"
                /\ tr_pc[s] = "done" =>
                      LET full == AccumulatedFinal(rcvd[s])
                      IN  IF full # <<>>
                          THEN /\ Len(EventsOf("CommandDetected", s)) = 1
                               /\ llm_calls[s] = <<full>>
                               /\ Len(out_calls[s]) = 1
                               /\ ended[s] \in {<<"Done">>, <<"Error">>}
                          ELSE /\ EventsOf("CommandDetected", s) = <<>>
                               /\ llm_calls[s] = <<>>
                               /\ out_calls[s] = <<>>
                               /\ ended[s] = <<"Idle">>)

\* A task that had accumulated "a" when the Error arrived: it called the LLM on "a".
C30_Witness ==
    \E s \in Sessions :
        /\ tr_exit[s] = "error"
        /\ tr_pc[s] = "done"
        /\ rcvd[s] = <<[type |-> "Committed", text |-> <<"a">>], [type |-> "Error", text |-> <<>>]>>
        /\ llm_calls[s] = <<<<"a">>>>
        /\ Len(EventsOf("Error", s)) >= 1

\* ------------------------------------------------------------------ concurrency properties

\* C31: the provider of a session is used by one context at a time. Once the forwarding
\* task is spawned, every send_audio and every stop_session of the session is made by
\* that task, from its loop, and none while its stop_session is in flight; stop() and
\* reset() call no provider method; the stt_provider slot never holds a provider.
C31_OneProviderUser ==
    /\ [](stt_provider = 0)
    /\ [][\A s \in Sessions :
             (Len(sent'[s]) > Len(sent[s]) \/ stop_calls'[s] > stop_calls[s])
                => /\ AudioRecv(s) \/ AudioEnd(s)
                   /\ au_pc[s] = "loop"
                   /\ start_pc[s] = "ok"]_vars
    /\ [][(Stop \/ Reset) => UNCHANGED <<prov, evq, sent, stop_calls>>]_vars

\* The forwarding task has sent a chunk and stopped the session, after a stop().
C31_Witness ==
    \E s \in Sessions :
        /\ au_pc[s] = "done"
        /\ Len(sent[s]) >= 1
        /\ stop_calls[s] = 1
        /\ prov[s] = "dropped"
        /\ ret = "Stopped"
        /\ stt_provider = 0

\* C32: no task is suspended while it holds the state mutex: under the guard a task only
\* reads and writes the state and sends events, which does not block; it receives from
\* no channel, calls neither provider, LLM nor output sink, and takes no other lock.
C32_LockNotHeldSuspended ==
    /\ state_lock = 0
    /\ \A region \in DOMAIN LockScopes :
          \A i \in 1..Len(LockScopes[region]) :
             LockScopes[region][i] \in {"read", "write", "emit"} \ Suspending

\* start(), the Partial arm, the completion logic and stop() have each taken and released
\* the mutex, and the task that wrote Processing is suspended in the LLM call.
C32_Witness ==
    \E s \in Sessions :
        /\ state_lock = 0
        /\ state = "Processing"
        /\ tr_pc[s] = "llm"
        /\ EventsOf("StateChanged", s)
              = <<StateChanged("Recording"), StateChanged("Transcribing"), StateChanged("Processing")>>
        /\ ret = "Stopped"

\* C33: after reset() has been called, in whatever state, the state eventually is Idle
\* (tasks scheduled fairly, provider, LLM and output calls returning). Stated for the
\* reset() calls made once start() has returned Ok and with no start() accepted later.
C33_ResetReachesIdle ==
    (ret = "Reset" /\ NextSession = 0 /\ \A s \in Sessions : start_pc[s] \in {"ok", "retired"})
        ~> (state = "Idle")

\* C34: StateChanged events reach the event bus in the order of the state writes they
\* report: the state carried by the StateChanged just sent is the current state, and a
\* run's StateChanged(Done), (Error) or (Idle) is not sent once a later start() has sent
\* its StateChanged(Recording).
C34_EventsFollowWrites ==
    [][/\ last_sc' # last_sc => last_sc' = state'
       /\ \A s \in Sessions :
             (Len(emitted'[s]) > Len(emitted[s])
                /\ emitted'[s][Len(emitted'[s])].type = "StateChanged"
                /\ emitted'[s][Len(emitted'[s])].state \in Settled)
                => \A t \in Sessions : t > s => start_pc[t] \in {"init", "retired"}]_vars

\* C35: whenever the state is Idle, Done or Error, no capture the orchestrator owns is
\* running and no audio-forwarding task is still in its loop, sending audio to a provider.
C35_SettledMeansInactive ==
    \A s \in Sessions :
        (state \in Settled /\ start_pc[s] = "ok")
            => /\ cap[s] # "running"
               /\ au_pc[s] # "loop"

\* C36: a stop() that ran while start() was under way is not lost: when that start()
\* returns Ok after the stop() has returned, the session's capture is not left running.
C36_StopDuringStart ==
    [][\A s \in Sessions :
          (start_pc[s] = "audio" /\ start_pc'[s] = "ok" /\ ret = "Stopped")
             => cap'[s] # "running"]_vars

\* C37: a start() that returned an error does not leave the state at Recording for
\* ever: after the failure the state eventually is Idle, Done or Error.
C37_FailedStartSettles ==
    \A s \in Sessions : (start_pc[s] = "err") ~> (state \in Settled)

\* C38: a start() of the capture that fails on a capture that was not running (no
\* device, configuration, sample format, stream build or play error) leaves it not
\* running.
C38_FailedStartNotRunning ==
    [][(CCalled("start") /\ ~c_running /\ c_ret' = "Failed") => ~c_running']_vars

\* The event stream of a batch session in which an upload failed and a later one
\* succeeded: at least one Error, then as last event the one Committed, which carries the
\* texts of every transcribed chunk.
BatchStreamWithFailure(q) ==
    /\ q # <<>>
    /\ q[Len(q)].type = "Committed"
    /\ q[Len(q)].text # <<>>
    /\ \A i \in 1..(Len(q) - 1) : q[i].type # "Committed"
    /\ \E i \in 1..(Len(q) - 1) : q[i].type = "Error"

\* C39: in a batch session with a failed upload followed by successful ones, the text
\* given to the LLM is the text of every transcribed chunk, those after the failure
\* included: once the transcription task is done, the LLM was called with the text of
\* the provider's Committed event.
C39_LaterChunksReachLlm ==
    \A s \in Sessions :
        LET q == rcvd[s] \o evq[s]
        IN  (tr_pc[s] = "done" /\ BatchStreamWithFailure(q))
                => llm_calls[s] = <<q[Len(q)].text>>

\* StateChanged(Transcribing) was emitted in session s.
ReachedTranscribing(s) ==
    \E i \in 1..Len(emitted[s]) : emitted[s][i] = StateChanged("Transcribing")

\* C40: a session that reached Transcribing never ends in Idle: its transcription task,
\* once done, has called the LLM once and ended in Done or Error; and the state goes to
\* Idle only from Recording.
C40_TranscribingNeverIdle ==
    /\ [][(state' = "Idle" /\ state # "Idle") => state = "Recording"]_vars
    /\ [](\A s \in Sessions :
             ReachedTranscribing(s) =>
                /\ ended[s] \in {<<>>, <<"Done">>, <<"Error">>}
                /\ tr_pc[s] = "done" =>
                      /\ Len(llm_calls[s]) = 1
                      /\ llm_calls[s][1] # <<>>
                      /\ ended[s] \in {<<"Done">>, <<"Error">>})

\* A session reached Transcribing on its only event, a Partial; after the stream closed
\* its task ran the LLM on the partial text and, the LLM failing, ended in Error.
C40_Witness ==
    \E s \in Sessions :
        /\ ReachedTranscribing(s)
        /\ tr_pc[s] = "done"
        /\ tr_exit[s] = "closed"
        /\ rcvd[s] = <<[type |-> "Partial", text |-> <<"a">>]>>
        /\ llm_calls[s] = << <<"a">> >>
        /\ ended[s] = <<"Error">>
        /\ state = "Error"
====
